---- MODULE Spec2Model ----
(***************************************************************************)
(* A model of the SysYrc compiler: the lowering of the AST to Koopa IR     *)
(* (src/src/frontend) and the generation of RISC-V from Koopa IR           *)
(* (src/src/backend).                                                      *)
(***************************************************************************)
EXTENDS Integers, Sequences, FiniteSets, TLC

VARIABLES
    funcs,                \* Program: the functions, in func_layout order
    symbol_table,         \* KoopaContext.symbol_table: frames, innermost last
    current_func,         \* KoopaContext.current_func (0 = None)
    current_bb,           \* KoopaContext.current_bb (0 = None)
    bb_count,             \* KoopaContext.bb_count
    loop_break_stack,     \* KoopaContext.loop_break_stack
    loop_continue_stack,  \* KoopaContext.loop_continue_stack
    stack,                \* the generate() calls in progress, innermost last
    globals,              \* Program: the global values (handle = -index)
    overflow_checks,      \* the build's overflow checks (debug: on, release: off)
    budget,               \* statements the source program still holds
    obs,                  \* what the last handler did (history)
    asm,                  \* AsmWriter: the lines written
    stack_frame,          \* the StackFrame of each function of func_layout so far
    func_index,           \* generate_program: the next function of func_layout
    run,                  \* an execution of the lowered main (history)
    flat                  \* the last call of flatten_init_list (history)

varsL == <<funcs, globals, overflow_checks, symbol_table, current_func, current_bb, bb_count,
           loop_break_stack, loop_continue_stack, stack, budget, obs>>

varsB == <<asm, stack_frame, func_index>>

\* what the lowering leaves alone
varsO == <<varsB, run, flat>>

vars == <<varsL, varsB, run, flat>>

(***************************************************************************)
(* Bounds of the model.                                                    *)
(***************************************************************************)
MaxStmts == 2
MaxFuncs == 2

(***************************************************************************)
(* src/src/ast.rs: expressions.                                            *)
(***************************************************************************)
Number(n) == [e |-> "Number", n |-> n]
LVal(name) == [e |-> "LVal", name |-> name]
Unary(op, x) == [e |-> "Unary", op |-> op, expr |-> x]
Binary(op, l, r) == [e |-> "Binary", op |-> op, lhs |-> l, rhs |-> r]
Call(f, args) == [e |-> "Call", func_name |-> f, args |-> args]
\* Option<Expr>: None
NoExpr == [e |-> "None"]

(***************************************************************************)
(* Koopa IR values.  A value is a record of the function's data-flow graph *)
(* and its handle is its index there.  a, b are the operand handles (lhs   *)
(* and rhs of a Binary, value and dest of a Store, src of a Load, cond of  *)
(* a Branch, value of a Return with 0 for none), tbb and fbb the target    *)
(* blocks.  at is the path of the AST node that created the value.         *)
(***************************************************************************)
Value(kind, ty, at) ==
    [kind |-> kind, ty |-> ty, op |-> "", a |-> 0, b |-> 0, tbb |-> 0,
     fbb |-> 0, n |-> 0, callee |-> 0, args |-> <<>>, name |-> "", dims |-> <<>>,
     at |-> at]

Integer(n, at) == [Value("Integer", "i32", at) EXCEPT !.n = n]
Alloc(at) == Value("Alloc", "ptr", at)
Load(src, at) == [Value("Load", "i32", at) EXCEPT !.a = src]
Store(value, dest, at) == [Value("Store", "unit", at) EXCEPT !.a = value, !.b = dest]
BinaryInst(op, lhs, rhs, at) ==
    [Value("Binary", "i32", at) EXCEPT !.op = op, !.a = lhs, !.b = rhs]
Branch(cond, true_bb, false_bb, at) ==
    [Value("Branch", "unit", at) EXCEPT !.a = cond, !.tbb = true_bb, !.fbb = false_bb]
Jump(target, at) == [Value("Jump", "unit", at) EXCEPT !.tbb = target]
Return(value, at) == [Value("Return", "unit", at) EXCEPT !.a = value]
CallInst(callee, args, ty, at) ==
    [Value("Call", ty, at) EXCEPT !.callee = callee, !.args = args]
FuncArgRef(index) == [Value("FuncArgRef", "i32", <<>>) EXCEPT !.n = index]

\* Value::is_global: the handle of the global value globals[g] is -g
IsGlobal(h) == h < 0

IsTerminator(v) == v.kind \in {"Branch", "Jump", "Return"}

(***************************************************************************)
(* FunctionData: the parameters are the first values of dfg.               *)
(***************************************************************************)
FunctionData(name, ret, params) ==
    [name |-> name, ret |-> ret, params |-> params,
     dfg |-> [i \in 1..Len(params) |-> FuncArgRef(i - 1)],
     bbname |-> <<>>, layout |-> <<>>, insts |-> <<>>]

(***************************************************************************)
(* KoopaContext, as the generators see it: the current function's data,    *)
(* the current basic block and the block counter.                          *)
(***************************************************************************)
Ctx == [fd |-> funcs[current_func], bb |-> current_bb, cnt |-> bb_count]

\* koopa_context.rs new_value: the new value's handle is LastValue
NewValue(G, d) == [G EXCEPT !.fd.dfg = Append(@, d)]
LastValue(G) == Len(G.fd.dfg)

\* koopa_context.rs add_inst
AddInst(G, v) == [G EXCEPT !.fd.insts[G.bb] = Append(@, v)]

\* a new value that is appended to the current block
Emit(G, d) == AddInst(NewValue(G, d), Len(G.fd.dfg) + 1)

BBName(prefix, count) == prefix \o "_" \o ToString(count)

NewBBBuggy(G, name_prefix) ==
    [G EXCEPT !.fd.bbname = Append(@, BBName(name_prefix, 0)),
              !.fd.insts = Append(@, <<>>),
              !.cnt = @ + 1]

\* koopa_context.rs new_bb: the new block's handle is LastBB
NewBB(G, name_prefix) ==
    [G EXCEPT !.fd.bbname = Append(@, BBName(name_prefix, G.cnt)),
              !.fd.insts = Append(@, <<>>),
              !.cnt = @ + 1]
LastBB(G) == Len(G.fd.bbname)

\* koopa_context.rs add_bb, set_current_bb
AddBB(G, bb) == [G EXCEPT !.fd.layout = Append(@, bb)]
SetCurrentBB(G, bb) == [G EXCEPT !.bb = bb]

\* koopa_context.rs is_current_bb_terminated
IsCurrentBBTerminated(G) ==
    LET is == G.fd.insts[G.bb] IN
    IF is # <<>> THEN IsTerminator(G.fd.dfg[is[Len(is)]]) ELSE FALSE

(***************************************************************************)
(* symbol_table.rs                                                         *)
(***************************************************************************)
SymbolTableNew == <<[level |-> 0, table |-> <<>>]>>

Level(st) == st[Len(st)].level

RECURSIVE LookupRecursive(_, _, _)
LookupRecursive(st, i, name) ==
    IF name \in DOMAIN st[i].table THEN st[i].table[name]
    ELSE IF i > 1 THEN LookupRecursive(st, i - 1, name)
    ELSE [kind |-> "None", h |-> 0]

\* a lookup that asks the global frame first (not the code)
LookupGlobalFirst(st, name) ==
    IF name \in DOMAIN st[1].table THEN st[1].table[name]
    ELSE LookupRecursive(st, Len(st), name)

Lookup(st, name) == LookupRecursive(st, Len(st), name)

Insert(st, name, info) ==
    [st EXCEPT ![Len(st)].table =
        [x \in DOMAIN @ \cup {name} |-> IF x = name THEN info ELSE @[x]]]

IsGlobalScope(st) == Level(st) = 0

EnterScope(st) == Append(st, [level |-> Level(st) + 1, table |-> <<>>])

ExitScopeBuggy(st) == st

ExitScope(st) == SubSeq(st, 1, Len(st) - 1)

(***************************************************************************)
(* koopa_generator.rs Expr::compute_constexpr.  i32 arithmetic: with       *)
(* overflow checks (a debug build) an overflowing +, -, * or unary -       *)
(* panics, without them it wraps; / and % panic on a zero divisor and on   *)
(* i32::MIN / -1 in every build.  The result is [panic, v].                *)
(***************************************************************************)
I32Max == 2147483647
I32Min == -I32Max - 1

Abs(x) == IF x < 0 THEN -x ELSE x
\* Rust's / and % on integers round toward zero
TruncDivAbs(x, y) ==
    IF (x < 0) = (y < 0) THEN Abs(x) \div Abs(y) ELSE -(Abs(x) \div Abs(y))
\* i32::MIN has no absolute value: as a divisor the quotient is 0 or 1, as a
\* dividend one divisor is taken off first
TruncDiv(x, y) ==
    IF y = -I32Max - 1 THEN (IF x = y THEN 1 ELSE 0)
    ELSE IF x = -I32Max - 1
    THEN (IF y > 0 THEN TruncDivAbs(x + y, y) - 1 ELSE TruncDivAbs(x - y, y) + 1)
    ELSE TruncDivAbs(x, y)
TruncRem(x, y) == x - y * TruncDiv(x, y)

\* two's-complement i32 +, -, unary - and *: whether the exact result leaves
\* the i32 range, and the wrapped result
AddOverflows(x, y) ==
    \/ x > 0 /\ y > 0 /\ x > I32Max - y
    \/ x < 0 /\ y < 0 /\ x < I32Min - y
AddWrap(x, y) ==
    IF x > 0 /\ y > 0 /\ x > I32Max - y THEN (x + I32Min) + (y + I32Min)
    ELSE IF x < 0 /\ y < 0 /\ x < I32Min - y THEN (x - I32Min) + (y - I32Min)
    ELSE x + y
NegOverflows(x) == x = I32Min
NegWrap(x) == IF x = I32Min THEN I32Min ELSE -x
SubOverflows(x, y) == IF y = I32Min THEN x >= 0 ELSE AddOverflows(x, -y)
SubWrap(x, y) ==
    IF y = I32Min THEN (IF x >= 0 THEN x + I32Min ELSE x - I32Min)
    ELSE AddWrap(x, -y)
MulOverflows(x, y) ==
    IF x = 0 \/ y = 0 \/ x = 1 \/ y = 1 THEN FALSE
    ELSE IF x = I32Min \/ y = I32Min THEN TRUE
    ELSE IF (x < 0) = (y < 0) THEN Abs(x) > I32Max \div Abs(y)
    ELSE -Abs(x) < (I32Min + Abs(y) - 1) \div Abs(y)
RECURSIVE MulWrapNat(_, _)
MulWrapNat(x, y) ==
    IF y = 0 \/ x = 0 THEN 0
    ELSE LET h == MulWrapNat(AddWrap(x, x), y \div 2)
         IN IF y % 2 = 1 THEN AddWrap(h, x) ELSE h
MulWrap(x, y) ==
    IF y = I32Min THEN (IF x % 2 = 1 THEN I32Min ELSE 0)
    ELSE IF y < 0 THEN NegWrap(MulWrapNat(x, -y))
    ELSE MulWrapNat(x, y)

Bool(b) == IF b THEN 1 ELSE 0
Ok(v) == [panic |-> FALSE, v |-> v]
Panic == [panic |-> TRUE, v |-> 0]
\* an i32 operation: its wrapped result, or a panic when it overflows and the
\* build checks overflow
Checked(overflows, wrapped) ==
    IF overflows /\ overflow_checks THEN Panic ELSE Ok(wrapped)

ConstBinary(op, left, right) ==
    CASE op = "Add" -> Checked(AddOverflows(left, right), AddWrap(left, right))
      [] op = "Sub" -> Checked(SubOverflows(left, right), SubWrap(left, right))
      [] op = "Mul" -> Checked(MulOverflows(left, right), MulWrap(left, right))
      [] op = "Div" ->
            IF right = 0 \/ (left = I32Min /\ right = -1) THEN Panic
            ELSE Ok(TruncDiv(left, right))
      [] op = "Mod" ->
            IF right = 0 \/ (left = I32Min /\ right = -1) THEN Panic
            ELSE Ok(TruncRem(left, right))
      [] op = "Eq" -> Ok(Bool(left = right))
      [] op = "Neq" -> Ok(Bool(left # right))
      [] op = "Lt" -> Ok(Bool(left < right))
      [] op = "Gt" -> Ok(Bool(left > right))
      [] op = "Leq" -> Ok(Bool(left <= right))
      [] op = "Geq" -> Ok(Bool(left >= right))
      [] op = "And" -> Ok(Bool(left # 0 /\ right # 0))
      [] op = "Or" -> Ok(Bool(left # 0 \/ right # 0))

\* the Integer a constant's handle denotes: a global value or one of fd's
ConstValue(fd, info) == IF IsGlobal(info.h) THEN globals[-info.h].n ELSE fd.dfg[info.h].n

\* compute_constexpr, Unary and Binary, from the operands' results on
ConstUnaryOf(op, val) ==
    IF val.panic THEN Panic
    ELSE CASE op = "Pos" -> val
           [] op = "Neg" -> Checked(NegOverflows(val.v), NegWrap(val.v))
           [] op = "Not" -> Ok(Bool(val.v = 0))
\* && and || decided by the left operand alone (not the code)
ConstBinaryOfShort(op, left, right) ==
    IF left.panic THEN Panic
    ELSE IF op = "Or" /\ left.v # 0 THEN Ok(1)
    ELSE IF op = "And" /\ left.v = 0 THEN Ok(0)
    ELSE IF right.panic THEN Panic
    ELSE ConstBinary(op, left.v, right.v)
ConstBinaryOf(op, left, right) ==
    IF left.panic \/ right.panic THEN Panic ELSE ConstBinary(op, left.v, right.v)

RECURSIVE ComputeConstexpr(_, _)
ComputeConstexpr(fd, e) ==
    CASE e.e = "Number" -> Ok(e.n)
      [] e.e = "Unary" -> ConstUnaryOf(e.op, ComputeConstexpr(fd, e.expr))
      [] e.e = "Binary" ->
            ConstBinaryOf(e.op, ComputeConstexpr(fd, e.lhs), ComputeConstexpr(fd, e.rhs))
      [] e.e = "LVal" ->
            LET addr == Lookup(symbol_table, e.name) IN
            IF addr.kind = "ConstVariable" THEN Ok(ConstValue(fd, addr)) ELSE Panic
      [] e.e = "Call" -> Panic

(***************************************************************************)
(* koopa_generator.rs Expr::generate.  The result is [g, v]: the context   *)
(* after the expression and the handle of its value.  p is the path of     *)
(* the expression in the statement's AST.                                  *)
(***************************************************************************)
MapBinaryOp(op) ==
    CASE op = "Add" -> "Add" [] op = "Sub" -> "Sub" [] op = "Mul" -> "Mul"
      [] op = "Div" -> "Div" [] op = "Mod" -> "Mod" [] op = "Eq" -> "Eq"
      [] op = "Neq" -> "NotEq" [] op = "Lt" -> "Lt" [] op = "Gt" -> "Gt"
      [] op = "Leq" -> "Le" [] op = "Geq" -> "Ge"

RECURSIVE GenExpr(_, _, _)
RECURSIVE GenArgs(_, _, _, _, _)
RECURSIVE GenArgsNext(_, _, _, _, _)

\* handles are indices: the k-th value (block) created from G on
NthValue(G, k) == Len(G.fd.dfg) + k
NthBB(G, k) == Len(G.fd.bbname) + k

\* a context and the handle of the value created last
Result(G) == [g |-> G, v |-> LastValue(G)]

\* Expr::generate, Binary And, from the lowered rhs on
GenAndRhs(R, result_ptr, zero, end_bb, p) ==
    LET rhs_ne_zero == NthValue(R.g, 1)
        G9 == Emit(R.g, BinaryInst("NotEq", R.v, zero, p))
        G10 == Emit(G9, Store(rhs_ne_zero, result_ptr, p))
        G11 == Emit(G10, Jump(end_bb, p))
        G12 == SetCurrentBB(AddBB(G11, end_bb), end_bb)
    IN Result(Emit(G12, Load(result_ptr, p)))

\* Expr::generate, Binary And: result = 0; if (lhs != 0) result = (rhs != 0)
GenAnd(L, rhs, p) ==
    LET result_ptr == NthValue(L.g, 1)
        zero == NthValue(L.g, 2)
        lhs_ne_zero == NthValue(L.g, 4)
        eval_rhs_bb == NthBB(L.g, 1)
        end_bb == NthBB(L.g, 2)
        G1 == Emit(L.g, Alloc(p))
        G2 == NewValue(G1, Integer(0, p))
        G3 == Emit(G2, Store(zero, result_ptr, p))
        G4 == Emit(G3, BinaryInst("NotEq", L.v, zero, p))
        G5 == NewBB(G4, "%and_eval_rhs")
        G6 == NewBB(G5, "%and_end")
        G7 == Emit(G6, Branch(lhs_ne_zero, eval_rhs_bb, end_bb, p))
        G8 == SetCurrentBB(AddBB(G7, eval_rhs_bb), eval_rhs_bb)
    IN GenAndRhs(GenExpr(G8, rhs, p \o <<2>>), result_ptr, zero, end_bb, p)

\* the branch of Binary Or with its targets exchanged (not the code)
OrBranchSwapped(lhs_ne_zero, end_bb, eval_rhs_bb, p) ==
    Branch(lhs_ne_zero, eval_rhs_bb, end_bb, p)

\* the branch of Binary Or, as a value
OrBranch(lhs_ne_zero, end_bb, eval_rhs_bb, p) ==
    Branch(lhs_ne_zero, end_bb, eval_rhs_bb, p)

\* Expr::generate, Binary Or, from the lowered rhs on
GenOrRhs(R, result_ptr, zero, end_bb, p) ==
    LET rhs_ne_zero == NthValue(R.g, 1)
        G9 == Emit(R.g, BinaryInst("NotEq", R.v, zero, p))
        G10 == Emit(G9, Store(rhs_ne_zero, result_ptr, p))
        G11 == Emit(G10, Jump(end_bb, p))
        G12 == SetCurrentBB(AddBB(G11, end_bb), end_bb)
    IN Result(Emit(G12, Load(result_ptr, p)))

\* Expr::generate, Binary Or: result = 1; if (lhs == 0) result = (rhs != 0)
GenOr(L, rhs, p) ==
    LET result_ptr == NthValue(L.g, 1)
        one == NthValue(L.g, 2)
        zero == NthValue(L.g, 4)
        lhs_ne_zero == NthValue(L.g, 5)
        eval_rhs_bb == NthBB(L.g, 1)
        end_bb == NthBB(L.g, 2)
        G1 == Emit(L.g, Alloc(p))
        G2 == NewValue(G1, Integer(1, p))
        G3 == Emit(G2, Store(one, result_ptr, p))
        G3z == NewValue(G3, Integer(0, p))
        G4 == Emit(G3z, BinaryInst("NotEq", L.v, zero, p))
        G5 == NewBB(G4, "%or_eval_rhs")
        G6 == NewBB(G5, "%or_end")
        G7 == Emit(G6, OrBranch(lhs_ne_zero, end_bb, eval_rhs_bb, p))
        G8 == SetCurrentBB(AddBB(G7, eval_rhs_bb), eval_rhs_bb)
    IN GenOrRhs(GenExpr(G8, rhs, p \o <<2>>), result_ptr, zero, end_bb, p)

\* the other binary operators with two Integer operands folded (not the code)
GenBinaryFolded(lhs, R, op, p) ==
    IF R.g.fd.dfg[lhs].kind = "Integer" /\ R.g.fd.dfg[R.v].kind = "Integer"
       /\ ~ConstBinary(op, R.g.fd.dfg[lhs].n, R.g.fd.dfg[R.v].n).panic
    THEN Result(NewValue(R.g, Integer(ConstBinary(op, R.g.fd.dfg[lhs].n,
                                                  R.g.fd.dfg[R.v].n).v, p)))
    ELSE Result(Emit(R.g, BinaryInst(MapBinaryOp(op), lhs, R.v, p)))

\* Expr::generate, the other binary operators, from the lowered rhs on
GenBinary(lhs, R, op, p) == Result(Emit(R.g, BinaryInst(MapBinaryOp(op), lhs, R.v, p)))

\* Expr::generate, Unary, from the lowered operand on
GenUnary(X, op, p) ==
    LET zero == NthValue(X.g, 1)
        G1 == NewValue(X.g, Integer(0, p))
    IN CASE op = "Pos" -> X
         [] op = "Neg" -> Result(Emit(G1, BinaryInst("Sub", zero, X.v, p)))
         [] op = "Not" -> Result(Emit(G1, BinaryInst("Eq", X.v, zero, p)))

\* Expr::generate, LVal
GenLVal(G, e, p) ==
    LET addr == Lookup(symbol_table, e.name) IN
    IF addr.kind = "ConstVariable"
    THEN IF IsGlobal(addr.h) THEN Result(NewValue(G, Integer(ConstValue(G.fd, addr), p)))
         ELSE [g |-> G, v |-> addr.h]
    ELSE Result(Emit(G, Load(addr.h, p)))

\* Expr::generate, Call: the call once the arguments are lowered
GenCall(G, e, arg_values, p) ==
    Result(Emit(G, CallInst(Lookup(symbol_table, e.func_name).h, arg_values,
                            funcs[Lookup(symbol_table, e.func_name).h].ret, p)))

\* Expr::generate, Call: the arguments from the i-th on, then the call
GenArgs(G, e, i, arg_values, p) ==
    IF i > Len(e.args) THEN GenCall(G, e, arg_values, p)
    ELSE GenArgsNext(GenExpr(G, e.args[i], p \o <<i>>), e, i, arg_values, p)

GenArgsNext(A, e, i, arg_values, p) ==
    GenArgs(A.g, e, i + 1, Append(arg_values, A.v), p)

\* Expr::generate, Binary: lhs first, then the operator's code
GenBinaryExpr(L, e, p) ==
    CASE e.op = "And" -> GenAnd(L, e.rhs, p)
      [] e.op = "Or" -> GenOr(L, e.rhs, p)
      [] OTHER -> GenBinary(L.v, GenExpr(L.g, e.rhs, p \o <<2>>), e.op, p)

GenExpr(G, e, p) ==
    CASE e.e = "Number" -> Result(NewValue(G, Integer(e.n, p)))
      [] e.e = "Binary" -> GenBinaryExpr(GenExpr(G, e.lhs, p \o <<1>>), e, p)
      [] e.e = "Unary" -> GenUnary(GenExpr(G, e.expr, p \o <<1>>), e.op, p)
      [] e.e = "LVal" -> GenLVal(G, e, p)
      [] e.e = "Call" -> GenArgs(G, e, 1, <<>>, p)

(***************************************************************************)
(* The lowering as a machine.  stack holds the generate() calls that are   *)
(* in progress; a Stmt frame stands for a statement the caller is about to *)
(* lower, and the statement itself is chosen by the action that lowers it, *)
(* so that the behaviours range over the source programs.  In a frame, ret *)
(* tells that a Return was an item of this Block, and dead that the        *)
(* statement follows a Return in its Block.                                *)
(***************************************************************************)
Frame(k) ==
    [k |-> k, end_bb |-> 0, else_bb |-> 0, cond_bb |-> 0, has_else |-> FALSE,
     func_type |-> "", ret |-> FALSE, dead |-> FALSE, item |-> FALSE]

\* the machine that runs the assembly, before it runs: f is the function it
\* runs, pc the line of asm it is at and prev the line it has just run, regs
\* the registers, ram the words of memory written so far by their address,
\* unknown what a word that nothing has written holds, junk whether one was
\* read, wrote the addresses written with the instruction of the IR that the
\* line was written for, and fault why it stopped, if not at a ret (done)
NoCpu ==
    [on |-> FALSE, f |-> 0, pc |-> 0, prev |-> 0, regs |-> <<>>, ram |-> <<>>,
     unknown |-> 0, junk |-> FALSE, wrote |-> {}, done |-> FALSE, fault |-> ""]

\* no execution yet: expr is the expression main returns and c the value of
\* the constant N of the source program
NoRun ==
    [expr |-> NoExpr, c |-> 0, on |-> FALSE, bb |-> 0, idx |-> 0, vals |-> <<>>,
     mem |-> <<>>, trace |-> {}, done |-> FALSE, ret |-> 0, divzero |-> FALSE,
     cpu |-> NoCpu]

\* flatten_init_list not called yet
NoFlat ==
    [called |-> FALSE, global |-> FALSE, shape |-> <<>>, init |-> [i |-> "None"],
     panic |-> "", result |-> <<>>, written |-> {}, lists |-> {}, cursors |-> <<>>,
     cursor |-> 0]

Top == stack[Len(stack)]
Pop == SubSeq(stack, 1, Len(stack) - 1)

\* koopa_context.rs register_sysy_lib_functions: (name, return type)
SysyLibFunctions ==
    << <<"getint", "i32">>, <<"getch", "i32">>, <<"getarray", "i32">>,
       <<"putint", "unit">>, <<"putch", "unit">>, <<"putarray", "unit">>,
       <<"starttime", "unit">>, <<"stoptime", "unit">> >>

FunctionInfo(h) == [kind |-> "Function", h |-> h, global |-> TRUE]
VariableInfo(h, global) == [kind |-> "Variable", h |-> h, global |-> global]
ConstVariableInfo(h, global) == [kind |-> "ConstVariable", h |-> h, global |-> global]

\* the source programs: names, and the expressions of the statements
FuncDefs ==
    {[func_name |-> "main", func_type |-> "i32", params |-> <<>>],
     [func_name |-> "f", func_type |-> "unit", params |-> <<"a">>],
     [func_name |-> "end_3", func_type |-> "i32", params |-> <<>>]}
ValueExprs == {Number(1)}
VarNames == {"x"}
CondExprs ==
    {Number(1), Binary("Or", Number(1), Binary("Div", Number(1), Number(0)))}
CallExprs == {Call("putint", <<Number(1)>>)}

InstCount(fd) == Len(fd.dfg)

Running == obs.panic = ""

Observe(name, M, G) ==
    obs' = [obs EXCEPT !.last = name,
                       !.dead_emit = @ \/ (M.dead /\ InstCount(G.fd) > InstCount(Ctx.fd))]

SetCtx(G) ==
    /\ funcs' = [funcs EXCEPT ![current_func] = G.fd]
    /\ current_bb' = G.bb
    /\ bb_count' = G.cnt

\* the stack once a statement that is no Return has been lowered
Done == Pop

\* the stack once a Return statement has been lowered
DoneReturn ==
    LET rest == Pop IN
    IF rest[Len(rest)].k = "Block" THEN [rest EXCEPT ![Len(rest)].ret = TRUE] ELSE rest

Init ==
    /\ funcs = <<>>
    /\ globals = <<>>
    /\ overflow_checks = TRUE
    /\ symbol_table = SymbolTableNew
    /\ current_func = 0
    /\ current_bb = 0
    /\ bb_count = 0
    /\ loop_break_stack = <<>>
    /\ loop_continue_stack = <<>>
    /\ stack = <<Frame("Start")>>
    /\ budget = MaxStmts
    /\ obs = [last |-> "", dead_emit |-> FALSE, panic |-> ""]
    /\ asm = <<>>
    /\ stack_frame = <<>>
    /\ func_index = 0
    /\ run = NoRun
    /\ flat = NoFlat

\* register_sysy_lib_functions: the declarations, and their symbols
LibFunctions ==
    [i \in 1..Len(SysyLibFunctions) |->
        FunctionData("@" \o SysyLibFunctions[i][1], SysyLibFunctions[i][2], <<>>)]
LibSymbolTable ==
    <<[level |-> 0,
       table |-> [x \in {SysyLibFunctions[i][1] : i \in 1..Len(SysyLibFunctions)} |->
                    FunctionInfo(CHOOSE i \in 1..Len(SysyLibFunctions) :
                                    SysyLibFunctions[i][1] = x)]]>>

\* koopa_generator.rs CompUnit::generate, up to its loop over the items
CompUnitGenerate ==
    /\ Running /\ Top.k = "Start"
    /\ funcs' = LibFunctions
    /\ symbol_table' = LibSymbolTable
    /\ stack' = <<Frame("CompUnit")>>
    /\ obs' = [obs EXCEPT !.last = "CompUnitGenerate"]
    /\ UNCHANGED <<globals, overflow_checks, current_func, current_bb, bb_count,
                   loop_break_stack, loop_continue_stack, budget>>

\* FuncDef::generate, the loop over the parameters: alloc, store, insert
RECURSIVE GenParams(_, _, _, _)
GenParams(G, st, params, i) ==
    IF i > Len(params) THEN [g |-> G, st |-> st]
    ELSE LET value == i   \* ctx.current_func().params()[i]
             alloc_inst == NthValue(G, 1)
             G1 == Emit(G, [Alloc(<<>>) EXCEPT !.name = "%" \o params[i]])
             G2 == Emit(G1, Store(value, alloc_inst, <<>>))
         IN GenParams(G2, Insert(st, params[i], VariableInfo(alloc_inst, FALSE)),
                      params, i + 1)

UserFuncs == Len(funcs) - Len(SysyLibFunctions)

\* FuncDef::generate, up to the lowering of the body
FuncDefBegin(func_name, func_type, params) ==
    /\ Running /\ Top.k = "CompUnit"
    /\ UserFuncs < MaxFuncs
    /\ Lookup(symbol_table, func_name).kind = "None"
    /\ LET func == Len(funcs) + 1
           func_data == FunctionData("@" \o func_name, func_type, params)
           G0 == [fd |-> func_data, bb |-> 0, cnt |-> bb_count]
           entry_bb == NthBB(G0, 1)
           G1 == NewBB(G0, "%entry")
           G2 == SetCurrentBB(AddBB(G1, entry_bb), entry_bb)
           st1 == EnterScope(Insert(symbol_table, func_name, FunctionInfo(func)))
           P == GenParams(G2, st1, params, 1)
       IN  \* set_current_func asserts that both loop stacks are empty
           IF loop_break_stack # <<>> \/ loop_continue_stack # <<>>
           THEN /\ obs' = [obs EXCEPT !.last = "FuncDefBegin", !.panic = "set_current_func"]
                /\ funcs' = Append(funcs, func_data)
                /\ current_func' = func
                /\ current_bb' = 0
                /\ UNCHANGED <<symbol_table, bb_count, stack>>
           ELSE /\ funcs' = Append(funcs, P.g.fd)
                /\ current_func' = func
                /\ current_bb' = P.g.bb
                /\ bb_count' = P.g.cnt
                /\ symbol_table' = P.st
                /\ stack' = stack \o <<[Frame("FuncDef") EXCEPT !.func_type = func_type],
                                       Frame("Block")>>
                /\ obs' = [obs EXCEPT !.last = "FuncDefBegin"]
    /\ UNCHANGED <<globals, overflow_checks, loop_break_stack, loop_continue_stack, budget>>

\* the implicit return dropped (not the code)
ImplicitReturnDropped(G, func_type) == G

\* FuncDef::generate, the default return
ImplicitReturn(G, func_type) ==
    IF ~IsCurrentBBTerminated(G)
    THEN IF func_type = "i32"
         THEN Emit(NewValue(G, Integer(0, <<>>)), Return(NthValue(G, 1), <<>>))
         ELSE Emit(G, Return(0, <<>>))
    ELSE G

\* FuncDef::generate, after the body
FuncDefEnd ==
    /\ Running /\ Top.k = "FuncDef"
    /\ LET G == ImplicitReturn(Ctx, Top.func_type)
       IN /\ SetCtx(G)
          /\ Observe("FuncDefEnd", Top, G)
    /\ symbol_table' = ExitScope(symbol_table)
    /\ stack' = Pop
    /\ UNCHANGED <<globals, overflow_checks, current_func, loop_break_stack,
                   loop_continue_stack, budget>>

\* Block::generate: the loop has no item left
BlockEnd ==
    /\ Running /\ Top.k = "Block"
    /\ stack' = Pop
    /\ obs' = [obs EXCEPT !.last = "BlockEnd"]
    /\ UNCHANGED <<funcs, globals, overflow_checks, symbol_table, current_func,
                   current_bb, bb_count, loop_break_stack, loop_continue_stack, budget>>

\* Block::generate without the dead code check (not the code)
BlockBreaksNever(G) == FALSE

\* Block::generate: the check that ends the loop
BlockBreaks(G) == IsCurrentBBTerminated(G)

\* Block::generate: the loop has an item left
BlockNext ==
    /\ Running /\ Top.k = "Block" /\ budget > 0
    /\ IF BlockBreaks(Ctx)
       THEN /\ stack' = Pop
            /\ obs' = [obs EXCEPT !.last = "BlockBreak"]
       ELSE /\ stack' = Append(stack, [Frame("Stmt") EXCEPT !.dead = Top.ret \/ Top.dead,
                                                            !.item = TRUE])
            /\ obs' = [obs EXCEPT !.last = "BlockNext"]
    /\ UNCHANGED <<funcs, globals, overflow_checks, symbol_table, current_func,
                   current_bb, bb_count, loop_break_stack, loop_continue_stack, budget>>

LeafUnchanged ==
    UNCHANGED <<globals, overflow_checks, current_func, loop_break_stack,
                loop_continue_stack>>

\* a Return without a value that is lowered to a Return (not the code)
GenReturnNoneEmitted(G) == Emit(G, Return(0, <<>>))

\* Stmt::generate, Return without an expression: nothing is emitted
GenReturnNone(G) == G

\* Stmt::generate, Return with an expression
EmitReturn(V) == Emit(V.g, Return(V.v, <<>>))
GenReturnSome(G, expr) == EmitReturn(GenExpr(G, expr, <<>>))

\* Stmt::generate, Return
StmtReturnOf(expr) ==
    /\ Running /\ Top.k = "Stmt" /\ budget > 0
    /\ LET G == IF expr.e = "None" THEN GenReturnNone(Ctx) ELSE GenReturnSome(Ctx, expr)
       IN /\ SetCtx(G)
          /\ Observe(IF expr.e = "None" THEN "ReturnNone" ELSE "Return", Top, G)
    /\ stack' = DoneReturn
    /\ budget' = budget - 1
    /\ UNCHANGED symbol_table
    /\ LeafUnchanged

StmtReturn(exprs) == \E expr \in exprs \cup {NoExpr} : StmtReturnOf(expr)

\* the store of a lowered expression's value to dest
EmitStore(V, dest) == Emit(V.g, Store(V.v, dest, <<>>))

\* Stmt::generate, Assign
StmtAssign(exprs) ==
    /\ Running /\ Top.k = "Stmt" /\ budget > 0
    /\ \E lval \in VarNames, expr \in exprs :
          LET addr == Lookup(symbol_table, lval)
              G == EmitStore(GenExpr(Ctx, expr, <<>>), addr.h)
          IN /\ addr.kind \in {"Variable", "ConstVariable"}
             /\ IF addr.kind = "ConstVariable"
                THEN /\ obs' = [obs EXCEPT !.last = "Assign", !.panic = "assign to const"]
                     /\ UNCHANGED <<funcs, current_bb, bb_count>>
                ELSE /\ SetCtx(G)
                     /\ Observe("Assign", Top, G)
    /\ stack' = Done
    /\ budget' = budget - 1
    /\ UNCHANGED symbol_table
    /\ LeafUnchanged

\* Stmt::generate, Expression: with an expression, and the empty statement
StmtExpression(exprs) ==
    /\ Running /\ Top.k = "Stmt"
    /\ \/ /\ budget > 0
          /\ \E expr \in exprs :
                LET G == GenExpr(Ctx, expr, <<>>).g
                IN /\ SetCtx(G)
                   /\ Observe("Expression", Top, G)
          /\ budget' = budget - 1
       \/ /\ obs' = [obs EXCEPT !.last = "ExpressionNone"]
          /\ UNCHANGED <<funcs, current_bb, bb_count, budget>>
    /\ stack' = Done
    /\ UNCHANGED symbol_table
    /\ LeafUnchanged

\* Stmt::generate, Block: enter_scope and the call of Block::generate
StmtBlock ==
    /\ Running /\ Top.k = "Stmt" /\ budget > 0
    /\ symbol_table' = EnterScope(symbol_table)
    /\ stack' = Pop \o <<[Frame("StmtBlock") EXCEPT !.dead = Top.dead],
                         [Frame("Block") EXCEPT !.dead = Top.dead]>>
    /\ budget' = budget - 1
    /\ obs' = [obs EXCEPT !.last = "Block"]
    /\ UNCHANGED <<funcs, current_bb, bb_count>>
    /\ LeafUnchanged

\* Stmt::generate, Block: exit_scope once Block::generate has returned
StmtBlockExit ==
    /\ Running /\ Top.k = "StmtBlock"
    /\ symbol_table' = ExitScope(symbol_table)
    /\ stack' = Pop
    /\ obs' = [obs EXCEPT !.last = "BlockExit"]
    /\ UNCHANGED <<funcs, current_bb, bb_count, budget>>
    /\ LeafUnchanged

\* a jump appended whatever the block ends with (not the code)
JumpAlways(G, target) == Emit(G, Jump(target, <<>>))

\* Stmt::generate, If and While: the jump that closes a body's last block
JumpUnlessTerminated(G, target) ==
    IF ~IsCurrentBBTerminated(G) THEN Emit(G, Jump(target, <<>>)) ELSE G

\* Stmt::generate, If, from the lowered condition on: the blocks, the branch,
\* and then_bb as the current block
IfHead(C, has_else) ==
    LET then_bb == NthBB(C.g, 1)
        end_bb == NthBB(C.g, 2)
        else_bb == IF has_else THEN NthBB(C.g, 3) ELSE end_bb
        G1 == NewBB(C.g, "%then")
        G2 == NewBB(G1, "%end")
        G3 == IF has_else THEN NewBB(G2, "%else") ELSE G2
        G4 == Emit(G3, Branch(C.v, then_bb, else_bb, <<>>))
    IN [g |-> SetCurrentBB(AddBB(G4, then_bb), then_bb),
        end_bb |-> end_bb, else_bb |-> else_bb]

\* Stmt::generate, If: the condition, the blocks, the branch, and then_bb
StmtIf(exprs) ==
    /\ Running /\ Top.k = "Stmt" /\ budget > 0
    /\ \E cond \in exprs, has_else \in BOOLEAN :
          LET H == IfHead(GenExpr(Ctx, cond, <<>>), has_else)
          IN /\ SetCtx(H.g)
             /\ Observe("If", Top, H.g)
             /\ stack' = Pop \o <<[Frame("IfThen") EXCEPT !.end_bb = H.end_bb,
                                      !.else_bb = H.else_bb, !.has_else = has_else,
                                      !.dead = Top.dead],
                                  [Frame("Stmt") EXCEPT !.dead = Top.dead]>>
    /\ budget' = budget - 1
    /\ UNCHANGED symbol_table
    /\ LeafUnchanged

\* Stmt::generate, If: after then_body
IfAfterThen ==
    /\ Running /\ Top.k = "IfThen"
    /\ LET G1 == JumpUnlessTerminated(Ctx, Top.end_bb)
           GElse == SetCurrentBB(AddBB(G1, Top.else_bb), Top.else_bb)
           GEnd == SetCurrentBB(AddBB(G1, Top.end_bb), Top.end_bb)
       IN IF Top.has_else
          THEN /\ SetCtx(GElse)
               /\ Observe("IfAfterThen", Top, GElse)
               /\ stack' = Pop \o <<[Frame("IfElse") EXCEPT !.end_bb = Top.end_bb,
                                        !.dead = Top.dead],
                                    [Frame("Stmt") EXCEPT !.dead = Top.dead]>>
          ELSE /\ SetCtx(GEnd)
               /\ Observe("IfAfterThen", Top, GEnd)
               /\ stack' = Pop
    /\ UNCHANGED <<symbol_table, budget>>
    /\ LeafUnchanged

\* Stmt::generate, If: after else_body
IfAfterElse ==
    /\ Running /\ Top.k = "IfElse"
    /\ LET G1 == JumpUnlessTerminated(Ctx, Top.end_bb)
           GEnd == SetCurrentBB(AddBB(G1, Top.end_bb), Top.end_bb)
       IN /\ SetCtx(GEnd)
          /\ Observe("IfAfterElse", Top, GEnd)
    /\ stack' = Pop
    /\ UNCHANGED <<symbol_table, budget>>
    /\ LeafUnchanged

\* Stmt::generate, While, from the lowered condition on: the branch, and
\* body_bb as the current block
WhileBranch(C, body_bb, end_bb) ==
    SetCurrentBB(AddBB(Emit(C.g, Branch(C.v, body_bb, end_bb, <<>>)), body_bb), body_bb)

\* enter_loop that pushes nothing (not the code)
EnterLoopSkipped(loop_stack, target) == loop_stack

\* koopa_context.rs enter_loop, on each of the two stacks: Vec::push
EnterLoop(loop_stack, target) == Append(loop_stack, target)

\* Stmt::generate, While: the blocks, the jump, the condition, enter_loop
StmtWhile(exprs) ==
    /\ Running /\ Top.k = "Stmt" /\ budget > 0
    /\ \E cond \in exprs :
          LET cond_bb == NthBB(Ctx, 1)
              body_bb == NthBB(Ctx, 2)
              end_bb == NthBB(Ctx, 3)
              G1 == NewBB(Ctx, "%while_cond")
              G2 == NewBB(G1, "%while_body")
              G3 == NewBB(G2, "%while_end")
              G4 == Emit(G3, Jump(cond_bb, <<>>))
              G5 == SetCurrentBB(AddBB(G4, cond_bb), cond_bb)
              G7 == WhileBranch(GenExpr(G5, cond, <<>>), body_bb, end_bb)
          IN /\ SetCtx(G7)
             /\ Observe("While", Top, G7)
             /\ loop_break_stack' = EnterLoop(loop_break_stack, end_bb)
             /\ loop_continue_stack' = EnterLoop(loop_continue_stack, cond_bb)
             /\ stack' = Pop \o <<[Frame("WhileBody") EXCEPT !.end_bb = end_bb,
                                      !.cond_bb = cond_bb, !.dead = Top.dead],
                                  [Frame("Stmt") EXCEPT !.dead = Top.dead]>>
    /\ budget' = budget - 1
    /\ UNCHANGED <<globals, overflow_checks, current_func, symbol_table>>

\* exit_loop that pops nothing (not the code)
ExitLoopKept(loop_stack) == loop_stack

\* koopa_context.rs exit_loop, on each of the two stacks: Vec::pop
ExitLoop(loop_stack) == SubSeq(loop_stack, 1, Len(loop_stack) - 1)

\* Stmt::generate, While: exit_loop and what follows the body
WhileAfterBody ==
    /\ Running /\ Top.k = "WhileBody"
    /\ loop_break_stack' = ExitLoop(loop_break_stack)
    /\ loop_continue_stack' = ExitLoop(loop_continue_stack)
    /\ LET G1 == JumpUnlessTerminated(Ctx, Top.cond_bb)
           GEnd == SetCurrentBB(AddBB(G1, Top.end_bb), Top.end_bb)
       IN /\ SetCtx(GEnd)
          /\ Observe("WhileAfterBody", Top, GEnd)
    /\ stack' = Pop
    /\ UNCHANGED <<globals, overflow_checks, current_func, symbol_table, budget>>

\* Stmt::generate, Break (inside a while: the stack is not empty)
StmtBreak ==
    /\ Running /\ Top.k = "Stmt" /\ budget > 0
    /\ loop_break_stack # <<>>
    /\ LET target == loop_break_stack[Len(loop_break_stack)]
           G == Emit(Ctx, Jump(target, <<>>))
       IN /\ SetCtx(G)
          /\ Observe("Break", Top, G)
    /\ stack' = Done
    /\ budget' = budget - 1
    /\ UNCHANGED symbol_table
    /\ LeafUnchanged

\* Stmt::generate, Continue (inside a while: the stack is not empty)
StmtContinue ==
    /\ Running /\ Top.k = "Stmt" /\ budget > 0
    /\ loop_continue_stack # <<>>
    /\ LET target == loop_continue_stack[Len(loop_continue_stack)]
           G == Emit(Ctx, Jump(target, <<>>))
       IN /\ SetCtx(G)
          /\ Observe("Continue", Top, G)
    /\ stack' = Done
    /\ budget' = budget - 1
    /\ UNCHANGED symbol_table
    /\ LeafUnchanged

\* Decl::generate, Var in a function: alloc, the optional store, insert
DeclVar(exprs) ==
    /\ Running /\ Top.k = "Stmt" /\ Top.item /\ budget > 0
    /\ ~IsGlobalScope(symbol_table)
    /\ \E var_name \in VarNames, init \in exprs \cup {NoExpr} :
          LET unique_name == "@" \o var_name \o "_" \o ToString(Level(symbol_table))
              alloc_ptr == NthValue(Ctx, 1)
              G1 == Emit(Ctx, [Alloc(<<>>) EXCEPT !.name = unique_name])
              G2 == IF init.e = "None" THEN G1
                    ELSE EmitStore(GenExpr(G1, init, <<>>), alloc_ptr)
          IN /\ SetCtx(G2)
             /\ Observe("DeclVar", Top, G2)
             /\ symbol_table' = Insert(symbol_table, var_name, VariableInfo(alloc_ptr, FALSE))
    /\ stack' = Done
    /\ budget' = budget - 1
    /\ LeafUnchanged

\* Decl::generate, Const: the folded initializer as an Integer, global or
\* of the current function, and the symbol
DeclConst(var_name, init_expr) ==
    /\ Running
    /\ \/ Top.k = "CompUnit" /\ IsGlobalScope(symbol_table)
       \/ Top.k = "Stmt" /\ Top.item /\ budget > 0 /\ ~IsGlobalScope(symbol_table)
    /\ Lookup(symbol_table, var_name).kind = "None"
    /\ LET init_value ==
               ComputeConstexpr(IF current_func = 0 THEN FunctionData("", "i32", <<>>)
                                ELSE funcs[current_func], init_expr)
       IN IF init_value.panic
          THEN /\ obs' = [obs EXCEPT !.last = "DeclConst", !.panic = "compute_constexpr"]
               /\ UNCHANGED <<funcs, globals, symbol_table, stack, budget>>
          ELSE IF IsGlobalScope(symbol_table)
          THEN /\ globals' = Append(globals, Integer(init_value.v, <<>>))
               /\ symbol_table' = Insert(symbol_table, var_name,
                                         ConstVariableInfo(-(Len(globals) + 1), TRUE))
               /\ obs' = [obs EXCEPT !.last = "DeclConst"]
               /\ UNCHANGED <<funcs, stack, budget>>
          ELSE /\ funcs' = [funcs EXCEPT ![current_func] =
                               NewValue(Ctx, Integer(init_value.v, <<>>)).fd]
               /\ symbol_table' = Insert(symbol_table, var_name,
                                         ConstVariableInfo(NthValue(Ctx, 1), FALSE))
               /\ obs' = [obs EXCEPT !.last = "DeclConst"]
               /\ stack' = Done
               /\ budget' = budget - 1
               /\ UNCHANGED globals
    /\ UNCHANGED <<overflow_checks, current_func, current_bb, bb_count,
                   loop_break_stack, loop_continue_stack>>

NextL ==
    \/ CompUnitGenerate /\ UNCHANGED varsO
    \/ \E d \in FuncDefs : FuncDefBegin(d.func_name, d.func_type, d.params) /\ UNCHANGED varsO
    \/ FuncDefEnd /\ UNCHANGED varsO
    \/ BlockEnd /\ UNCHANGED varsO
    \/ BlockNext /\ UNCHANGED varsO
    \/ StmtReturn(CondExprs) /\ UNCHANGED varsO
    \/ StmtAssign(ValueExprs) /\ UNCHANGED varsO
    \/ StmtExpression(CallExprs) /\ UNCHANGED varsO
    \/ StmtBlock /\ UNCHANGED varsO
    \/ StmtBlockExit /\ UNCHANGED varsO
    \/ StmtIf(CondExprs) /\ UNCHANGED varsO
    \/ IfAfterThen /\ UNCHANGED varsO
    \/ IfAfterElse /\ UNCHANGED varsO
    \/ StmtWhile(CondExprs) /\ UNCHANGED varsO
    \/ WhileAfterBody /\ UNCHANGED varsO
    \/ StmtBreak /\ UNCHANGED varsO
    \/ StmtContinue /\ UNCHANGED varsO
    \/ DeclVar(ValueExprs) /\ UNCHANGED varsO

Spec == Init /\ [][NextL]_vars

(***************************************************************************)
(* src/src/backend/asm_writer.rs: the lines of the output.  An operand is  *)
(* a register, an immediate, an address offset(base) or a symbol.  src     *)
(* tells which function, instruction and call argument a line was written  *)
(* for (history).                                                          *)
(***************************************************************************)
Reg(r) == [o |-> "reg", r |-> r, n |-> 0]
Imm(n) == [o |-> "imm", r |-> "", n |-> n]
Mem(offset, base) == [o |-> "mem", r |-> base, n |-> offset]
Sym(name) == [o |-> "sym", r |-> name, n |-> 0]

NoSrc == [f |-> 0, v |-> 0, arg |-> -1]

WriteInst(inst, args) ==
    [k |-> "inst", indent |-> "    ", name |-> inst, args |-> args, src |-> NoSrc]
WriteLabel(label) ==
    [k |-> "label", indent |-> "", name |-> label, args |-> <<>>, src |-> NoSrc]
WriteDirective(directive, args) ==
    [k |-> "directive", indent |-> "    ", name |-> directive, args |-> args, src |-> NoSrc]
WriteBlankLine ==
    [k |-> "blank", indent |-> "", name |-> "", args |-> <<>>, src |-> NoSrc]
\* a panic of the generator, in the place of the lines it would have written
WritePanic(what) ==
    [k |-> "panic", indent |-> "", name |-> what, args |-> <<>>, src |-> NoSrc]

\* what a loop writes: the lines of its iterations, in order
RECURSIVE FlattenRange(_, _, _)
FlattenRange(ss, lo, hi) ==
    IF lo > hi THEN <<>>
    ELSE IF lo = hi THEN ss[lo]
    ELSE FlattenRange(ss, lo, (lo + hi) \div 2)
            \o FlattenRange(ss, (lo + hi) \div 2 + 1, hi)
Flatten(ss) == FlattenRange(ss, 1, Len(ss))

\* str::replace(c, ""): s without the character c
RECURSIVE Replace(_, _)
Replace(s, c) ==
    IF s = "" THEN ""
    ELSE IF SubSeq(s, 1, 1) = c THEN Replace(Tail(s), c)
    ELSE SubSeq(s, 1, 1) \o Replace(Tail(s), c)

(***************************************************************************)
(* src/src/backend/stack_frame.rs                                          *)
(***************************************************************************)
WORD_SIZE == 4

None == [some |-> FALSE, v |-> 0]
Some(x) == [some |-> TRUE, v |-> x]

StackFrameNew == [values_map |-> <<>>, stack_size |-> 0, ra_offset |-> None]

\* func.layout().bbs() with node.insts(): the instructions in layout order
LayoutInsts(fd) == Flatten([k \in 1..Len(fd.layout) |-> fd.insts[fd.layout[k]]])

Max(S) == CHOOSE x \in S : \A y \in S : y <= x
IndexOf(s, v) == CHOOSE k \in 1..Len(s) : s[k] = v

\* (total_size + 15) & !15
AlignTo16Dropped(total_size) == total_size

AlignTo16(total_size) == (total_size + 15) - ((total_size + 15) % 16)

\* the offset of a slot without the outgoing arguments below it (not the code)
SlotOffsetNoArgs(local_size, call_args_size) == local_size

\* initialize: the offset of the slot of an instruction
SlotOffset(local_size, call_args_size) == local_size + call_args_size

\* initialize, the first loop: has_call and max_call_args
HasCall(fd, insts) == \E k \in 1..Len(insts) : fd.dfg[insts[k]].kind = "Call"
MaxCallArgs(fd, insts) ==
    Max({0} \cup {Len(fd.dfg[insts[k]].args) :
                    k \in {j \in 1..Len(insts) : fd.dfg[insts[j]].kind = "Call"}})
CallArgsSize(max_call_args) ==
    IF max_call_args > 8 THEN (max_call_args - 8) * WORD_SIZE ELSE 0

\* initialize, the sizes: stack_size and ra_offset
FrameWith(values_map, stack_size, has_call, ra_size) ==
    [values_map |-> values_map, stack_size |-> stack_size,
     ra_offset |-> IF has_call THEN Some(stack_size - ra_size) ELSE None]

\* initialize, the second loop; slots are the instructions whose type is not
\* unit, in layout order, and local_size is 4 * (the slots placed before)
PlanFrame(slots, has_call, ra_size, call_args_size) ==
    FrameWith([v \in {slots[k] : k \in 1..Len(slots)} |->
                  SlotOffset((IndexOf(slots, v) - 1) * WORD_SIZE, call_args_size)],
              AlignTo16(ra_size + Len(slots) * WORD_SIZE + call_args_size),
              has_call, ra_size)

NotUnit(fd, insts) == {k \in 1..Len(insts) : fd.dfg[insts[k]].ty # "unit"}

\* the subsequence of s at the positions in keep
RECURSIVE SelectRange(_, _, _, _)
SelectRange(s, keep, lo, hi) ==
    IF lo > hi THEN <<>>
    ELSE IF lo = hi THEN (IF lo \in keep THEN <<s[lo]>> ELSE <<>>)
    ELSE SelectRange(s, keep, lo, (lo + hi) \div 2)
            \o SelectRange(s, keep, (lo + hi) \div 2 + 1, hi)

InitializeOn(fd, insts) ==
    PlanFrame(SelectRange(insts, NotUnit(fd, insts), 1, Len(insts)),
              HasCall(fd, insts), IF HasCall(fd, insts) THEN WORD_SIZE ELSE 0,
              CallArgsSize(MaxCallArgs(fd, insts)))

\* StackFrame::initialize
Initialize(fd) == InitializeOn(fd, LayoutInsts(fd))

\* StackFrame::get_stack_offset, and whether its expect succeeds
HasSlot(sf, value) == value \in DOMAIN sf.values_map
GetStackOffset(sf, value) == sf.values_map[value]

(***************************************************************************)
(* src/src/backend/riscv_generator.rs.  An operator that writes yields the *)
(* lines it writes.                                                        *)
(***************************************************************************)
MAX_IMM_12 == 2047

\* get_global_value_name, and the names of functions and basic blocks
GetGlobalValueName(value) == Replace(globals[-value].name, "@")
GetFuncName(fd) == Replace(fd.name, "@")
GetBBName(fd, bb) == Replace(fd.bbname[bb], "%")

\* build_stk_addr_str with a range one too wide (not the code)
BuildStkAddrStrWide(offset, tmp_reg) ==
    IF offset <= MAX_IMM_12 + 1 /\ offset >= -MAX_IMM_12 - 1
    THEN [lines |-> <<>>, addr |-> Mem(offset, "sp")]
    ELSE [lines |-> <<WriteInst("li", <<Reg("t0"), Imm(offset)>>),
                      WriteInst("add", <<Reg(tmp_reg), Reg("sp"), Reg("t0")>>)>>,
          addr |-> Mem(0, tmp_reg)]

\* build_stk_addr_str: the lines written and the address returned
BuildStkAddrStr(offset, tmp_reg) ==
    IF offset <= MAX_IMM_12 /\ offset >= -MAX_IMM_12 - 1
    THEN [lines |-> <<>>, addr |-> Mem(offset, "sp")]
    ELSE [lines |-> <<WriteInst("li", <<Reg("t0"), Imm(offset)>>),
                      WriteInst("add", <<Reg(tmp_reg), Reg("sp"), Reg("t0")>>)>>,
          addr |-> Mem(0, tmp_reg)]

\* build_stk_addr_str, then inst reg, addr
StkInst(inst, reg, offset, tmp_reg) ==
    BuildStkAddrStr(offset, tmp_reg).lines
        \o <<WriteInst(inst, <<Reg(reg), BuildStkAddrStr(offset, tmp_reg).addr>>)>>

\* get_stack_offset, build_stk_addr_str, then inst reg, addr
SlotInst(sf, inst, reg, value, tmp_reg) ==
    IF HasSlot(sf, value) THEN StkInst(inst, reg, GetStackOffset(sf, value), tmp_reg)
    ELSE <<WritePanic("Value not found in stack frame")>>

\* the offset of a stack-passed parameter without the frame (not the code)
ArgOffsetNoFrame(arg_index, stack_size) == (arg_index - 8) * WORD_SIZE

\* load_value_to_reg, FuncArgRef: the offset of a stack-passed parameter
ArgOffset(arg_index, stack_size) == (arg_index - 8) * WORD_SIZE + stack_size

\* load_value_to_reg
LoadValueToReg(fd, sf, value, reg) ==
    IF IsGlobal(value)
    THEN <<WriteInst("la", <<Reg(reg), Sym(GetGlobalValueName(value))>>)>>
    ELSE CASE fd.dfg[value].kind = "Integer" ->
                IF fd.dfg[value].n = 0
                THEN <<WriteInst("mv", <<Reg(reg), Reg("x0")>>)>>
                ELSE <<WriteInst("li", <<Reg(reg), Imm(fd.dfg[value].n)>>)>>
           [] fd.dfg[value].kind = "FuncArgRef" ->
                IF fd.dfg[value].n < 8
                THEN <<WriteInst("mv", <<Reg(reg), Reg("a" \o ToString(fd.dfg[value].n))>>)>>
                ELSE StkInst("lw", reg, ArgOffset(fd.dfg[value].n, sf.stack_size), reg)
           [] OTHER -> SlotInst(sf, "lw", reg, value, "t0")

\* save_value_from_reg
SaveValueFromReg(sf, value, reg) ==
    IF IsGlobal(value)
    THEN <<WriteInst("la", <<Reg("t0"), Sym(GetGlobalValueName(value))>>),
           WriteInst("sw", <<Reg(reg), Mem(0, "t0")>>)>>
    ELSE SlotInst(sf, "sw", reg, value, "t0")

\* the prologue with addi whatever the size (not the code)
GeneratePrologueAddi(sf) ==
    IF sf.stack_size = 0 THEN <<>>
    ELSE <<WriteInst("addi", <<Reg("sp"), Reg("sp"), Imm(-sf.stack_size)>>)>>

\* generate_prologue
GeneratePrologue(sf) ==
    IF sf.stack_size = 0 THEN <<>>
    ELSE IF sf.stack_size > MAX_IMM_12
    THEN <<WriteInst("li", <<Reg("t0"), Imm(-sf.stack_size)>>),
           WriteInst("add", <<Reg("sp"), Reg("sp"), Reg("t0")>>)>>
    ELSE <<WriteInst("addi", <<Reg("sp"), Reg("sp"), Imm(-sf.stack_size)>>)>>

\* generate_epilogue
GenerateEpilogue(sf) ==
    IF sf.stack_size = 0 THEN <<>>
    ELSE IF sf.stack_size > MAX_IMM_12
    THEN <<WriteInst("li", <<Reg("t0"), Imm(sf.stack_size)>>),
           WriteInst("add", <<Reg("sp"), Reg("sp"), Reg("t0")>>)>>
    ELSE <<WriteInst("addi", <<Reg("sp"), Reg("sp"), Imm(sf.stack_size)>>)>>

\* save_caller_saved_regs, restore_caller_saved_regs
SaveCallerSavedRegs(sf) ==
    IF sf.ra_offset.some THEN StkInst("sw", "ra", sf.ra_offset.v, "t0") ELSE <<>>
\* restore_caller_saved_regs leaving ra as the last call left it (not the code)
RestoreCallerSavedRegsNever(sf) == <<>>
RestoreCallerSavedRegs(sf) ==
    IF sf.ra_offset.some THEN StkInst("lw", "ra", sf.ra_offset.v, "t0") ELSE <<>>

\* map_binary_op of the backend: None is ""
MapBinaryOpRiscv(op) ==
    CASE op = "Add" -> "add" [] op = "Sub" -> "sub" [] op = "Mul" -> "mul"
      [] op = "Div" -> "div" [] op = "Mod" -> "rem" [] op = "And" -> "and"
      [] op = "Or" -> "or" [] op = "Lt" -> "slt" [] op = "Gt" -> "sgt"
      [] op = "Sar" -> "sra" [] op = "Shl" -> "sll" [] op = "Shr" -> "srl"
      [] op = "Xor" -> "xor"
      [] op \in {"Eq", "NotEq", "Ge", "Le"} -> ""

T0T0T1 == <<Reg("t0"), Reg("t0"), Reg("t1")>>

\* generate_instruction, Binary: the operation on t0 and t1
BinaryOpLines(op) ==
    CASE op = "Le" -> <<WriteInst("sgt", T0T0T1), WriteInst("seqz", <<Reg("t0"), Reg("t0")>>)>>
      [] op = "Ge" -> <<WriteInst("slt", T0T0T1), WriteInst("seqz", <<Reg("t0"), Reg("t0")>>)>>
      [] op = "Eq" -> <<WriteInst("xor", T0T0T1), WriteInst("seqz", <<Reg("t0"), Reg("t0")>>)>>
      [] op = "NotEq" -> <<WriteInst("xor", T0T0T1), WriteInst("snez", <<Reg("t0"), Reg("t0")>>)>>
      [] OTHER -> IF MapBinaryOpRiscv(op) # "" THEN <<WriteInst(MapBinaryOpRiscv(op), T0T0T1)>>
                  ELSE <<>>

\* shape.iter().skip(dim - 1).product()
RECURSIVE Capacity(_, _)
Capacity(shape, dim) ==
    IF dim > Len(shape) THEN 1 ELSE shape[dim] * Capacity(shape, dim + 1)

\* the dimensions of the array type a pointer points to, <<>> when it points
\* to an i32: of an Alloc those of its type (dims), of a GetElemPtr the
\* element type of its source's, of a GetPtr its source's
RECURSIVE PointeeDims(_, _)
PointeeDims(fd, value) ==
    IF IsGlobal(value) THEN globals[-value].shape
    ELSE CASE fd.dfg[value].kind = "GetElemPtr" ->
                 IF PointeeDims(fd, fd.dfg[value].a) = <<>> THEN <<>>
                 ELSE Tail(PointeeDims(fd, fd.dfg[value].a))
           [] fd.dfg[value].kind = "GetPtr" -> PointeeDims(fd, fd.dfg[value].a)
           [] OTHER -> fd.dfg[value].dims
\* Type::size of an array of i32 with the dimensions dims from the dim-th on
TypeSize(dims, dim) == WORD_SIZE * Capacity(dims, dim)
\* generate_instruction, GetElemPtr and GetPtr: step
ElemStep(base_dims) == IF base_dims # <<>> THEN TypeSize(base_dims, 2) ELSE WORD_SIZE
PtrStep(base_dims) == TypeSize(base_dims, 1)

\* usize::is_power_of_two and trailing_zeros
RECURSIVE TrailingZeros(_)
TrailingZeros(step) == IF step % 2 = 1 THEN 0 ELSE 1 + TrailingZeros(step \div 2)
IsPowerOfTwo(step) == step > 0 /\ step = 2 ^ TrailingZeros(step)

\* generate_ptr_calc: dest = src + index * step
GeneratePtrCalc(fd, sf, dest, src, index, step) ==
    LoadValueToReg(fd, sf, src, "t0")
    \o LoadValueToReg(fd, sf, index, "t1")
    \o (IF step = 1 THEN <<>>
        ELSE IF IsPowerOfTwo(step)
        THEN <<WriteInst("slli", <<Reg("t1"), Reg("t1"), Imm(TrailingZeros(step))>>)>>
        ELSE <<WriteInst("li", <<Reg("t2"), Imm(step)>>),
               WriteInst("mul", <<Reg("t1"), Reg("t1"), Reg("t2")>>)>>)
    \o <<WriteInst("add", <<Reg("t0"), Reg("t0"), Reg("t1")>>)>>
    \o SaveValueFromReg(sf, dest, "t0")

\* the lines with the call argument they were written for
TagArg(lines, i) == [j \in 1..Len(lines) |-> [lines[j] EXCEPT !.src.arg = i]]

\* generate_instruction, Call: the i-th argument, to a register or the stack
CallArg(fd, sf, arg, i) ==
    TagArg(IF i < 8 THEN LoadValueToReg(fd, sf, arg, "a" \o ToString(i))
           ELSE LoadValueToReg(fd, sf, arg, "t0")
                    \o StkInst("sw", "t0", (i - 8) * WORD_SIZE, "t1"),
           i)

\* generate_instruction
GenerateInstruction(fd, sf, value) ==
    CASE fd.dfg[value].kind = "Integer" -> <<>>
      [] fd.dfg[value].kind = "Call" ->
            Flatten([i \in 1..Len(fd.dfg[value].args) |->
                        CallArg(fd, sf, fd.dfg[value].args[i], i - 1)])
            \o <<WriteInst("call", <<Sym(GetFuncName(funcs[fd.dfg[value].callee]))>>)>>
            \o (IF fd.dfg[value].ty # "unit" THEN SaveValueFromReg(sf, value, "a0")
                ELSE <<>>)
      [] fd.dfg[value].kind = "Return" ->
            (IF fd.dfg[value].a # 0 THEN LoadValueToReg(fd, sf, fd.dfg[value].a, "a0")
             ELSE <<>>)
            \o RestoreCallerSavedRegs(sf) \o GenerateEpilogue(sf)
            \o <<WriteInst("ret", <<>>), WriteBlankLine>>
      [] fd.dfg[value].kind = "Binary" ->
            LoadValueToReg(fd, sf, fd.dfg[value].a, "t0")
            \o LoadValueToReg(fd, sf, fd.dfg[value].b, "t1")
            \o BinaryOpLines(fd.dfg[value].op)
            \o SaveValueFromReg(sf, value, "t0")
      [] fd.dfg[value].kind = "Alloc" -> <<>>
      [] fd.dfg[value].kind = "GetElemPtr" ->
            GeneratePtrCalc(fd, sf, value, fd.dfg[value].a, fd.dfg[value].b,
                            ElemStep(PointeeDims(fd, fd.dfg[value].a)))
      [] fd.dfg[value].kind = "GetPtr" ->
            GeneratePtrCalc(fd, sf, value, fd.dfg[value].a, fd.dfg[value].b,
                            PtrStep(PointeeDims(fd, fd.dfg[value].a)))
      [] fd.dfg[value].kind = "Store" ->
            LoadValueToReg(fd, sf, fd.dfg[value].a, "t0")
            \o (IF IsGlobal(fd.dfg[value].b)
                THEN <<WriteInst("la", <<Reg("t1"), Sym(GetGlobalValueName(fd.dfg[value].b))>>),
                       WriteInst("sw", <<Reg("t0"), Mem(0, "t1")>>)>>
                ELSE SlotInst(sf, "sw", "t0", fd.dfg[value].b, "t1"))
      [] fd.dfg[value].kind = "Load" ->
            (IF IsGlobal(fd.dfg[value].a)
             THEN <<WriteInst("la", <<Reg("t0"), Sym(GetGlobalValueName(fd.dfg[value].a))>>),
                    WriteInst("lw", <<Reg("t0"), Mem(0, "t0")>>)>>
             ELSE SlotInst(sf, "lw", "t0", fd.dfg[value].a, "t0"))
            \o SaveValueFromReg(sf, value, "t0")
      [] fd.dfg[value].kind = "Branch" ->
            LoadValueToReg(fd, sf, fd.dfg[value].a, "t0")
            \o <<WriteInst("bnez", <<Reg("t0"), Sym(GetBBName(fd, fd.dfg[value].tbb))>>),
                 WriteInst("j", <<Sym(GetBBName(fd, fd.dfg[value].fbb))>>)>>
      [] fd.dfg[value].kind = "Jump" ->
            <<WriteInst("j", <<Sym(GetBBName(fd, fd.dfg[value].tbb))>>)>>
      [] OTHER -> <<WritePanic("Unsupported instruction in RISC-V generation")>>

\* the lines with the instruction, and the function, they were written for
TagInst(lines, value) == [j \in 1..Len(lines) |-> [lines[j] EXCEPT !.src.v = value]]
TagFunc(lines, f) == [j \in 1..Len(lines) |-> [lines[j] EXCEPT !.src.f = f]]

\* generate_function, the loop over the basic blocks: the k-th block of the
\* layout, its label unless it is the first, and its instructions
GenerateBB(fd, sf, k) ==
    (IF k > 1 THEN <<WriteLabel(GetBBName(fd, fd.layout[k]))>> ELSE <<>>)
    \o Flatten([j \in 1..Len(fd.insts[fd.layout[k]]) |->
                  TagInst(GenerateInstruction(fd, sf, fd.insts[fd.layout[k]][j]),
                          fd.insts[fd.layout[k]][j])])

\* generate_function, for the function funcs[f] with the frame sf
GenerateFunction(fd, sf, f) ==
    TagFunc(<<WriteDirective("globl", <<GetFuncName(fd)>>), WriteLabel(GetFuncName(fd))>>
            \o GeneratePrologue(sf)
            \o SaveCallerSavedRegs(sf)
            \o Flatten([k \in 1..Len(fd.layout) |-> GenerateBB(fd, sf, k)]),
            f)

\* generate_global_init
RECURSIVE GenerateGlobalInit(_)
GenerateGlobalInit(init) ==
    CASE init.kind = "Integer" -> <<WriteDirective("word", <<ToString(init.n)>>)>>
      [] init.kind = "ZeroInit" -> <<WriteDirective("zero", <<ToString(init.size)>>)>>
      [] init.kind = "Aggregate" ->
            Flatten([j \in 1..Len(init.elems) |-> GenerateGlobalInit(globals[-init.elems[j]])])

\* generate_program, the data segment: the GlobalAllocs of inst_layout
GenerateGlobal(g) ==
    <<WriteDirective("globl", <<GetGlobalValueName(-g)>>),
      WriteLabel(GetGlobalValueName(-g))>>
    \o GenerateGlobalInit(globals[-globals[g].init])
GenerateData ==
    <<WriteDirective("data", <<>>)>>
    \o Flatten([i \in 1..Len(globals) |->
                   IF globals[i].kind = "GlobalAlloc" THEN GenerateGlobal(i) ELSE <<>>])
    \o <<WriteBlankLine, WriteDirective("text", <<>>)>>

(***************************************************************************)
(* The generator as a machine: generate_program writes the data segment,   *)
(* then generate_function is called for every function of func_layout.     *)
(***************************************************************************)
\* frontend/mod.rs translate_to_koopa: CompUnit::generate has returned
TranslateToKoopaEnd ==
    /\ Running /\ Top.k = "CompUnit"
    /\ stack' = <<Frame("Program")>>
    /\ obs' = [obs EXCEPT !.last = "TranslateToKoopaEnd"]
    /\ UNCHANGED <<funcs, globals, overflow_checks, symbol_table, current_func, current_bb,
                   bb_count, loop_break_stack, loop_continue_stack, budget, varsO>>

BackendUnchanged ==
    UNCHANGED <<funcs, globals, overflow_checks, symbol_table, current_func, current_bb,
                bb_count, loop_break_stack, loop_continue_stack, budget, run, flat>>

\* generate_program, up to the loop over the functions
GenerateProgramBegin ==
    /\ Running /\ Top.k = "Program"
    /\ asm' = asm \o GenerateData
    /\ func_index' = 1
    /\ stack' = <<Frame("Functions")>>
    /\ obs' = [obs EXCEPT !.last = "GenerateProgramBegin"]
    /\ UNCHANGED stack_frame
    /\ BackendUnchanged

IsPanicLine(line) == line.k = "panic"
HasPanic(lines) == \E j \in 1..Len(lines) : IsPanicLine(lines[j])
\* the lines written before the first panic
UntilPanic(lines) ==
    IF HasPanic(lines)
    THEN SubSeq(lines, 1, (CHOOSE j \in 1..Len(lines) :
                              /\ IsPanicLine(lines[j])
                              /\ \A i \in 1..(j - 1) : ~IsPanicLine(lines[i])) - 1)
    ELSE lines

\* what generate_function has written reaches the output
WriteFunction(lines) ==
    /\ asm' = asm \o UntilPanic(lines)
    /\ obs' = [obs EXCEPT !.last = "GenerateFunction",
                          !.panic = IF HasPanic(lines) THEN "generate_function" ELSE @]

\* FunctionGenerator::new and generate_function, with the frame sf planned
FunctionGeneratorNew(sf) ==
    /\ stack_frame' = Append(stack_frame, sf)
    /\ WriteFunction(GenerateFunction(funcs[func_index], sf, func_index))

\* generate_program, the loop over func_layout: a declaration is skipped (its
\* entry of stack_frame stays as StackFrame::new left it)
GenerateProgramNext ==
    /\ Running /\ Top.k = "Functions" /\ func_index <= Len(funcs)
    /\ IF funcs[func_index].layout = <<>>
       THEN /\ stack_frame' = Append(stack_frame, StackFrameNew)
            /\ obs' = [obs EXCEPT !.last = "SkipDeclaration"]
            /\ UNCHANGED asm
       ELSE FunctionGeneratorNew(Initialize(funcs[func_index]))
    /\ func_index' = func_index + 1
    /\ UNCHANGED stack
    /\ BackendUnchanged

\* generate_program returns
GenerateProgramEnd ==
    /\ Running /\ Top.k = "Functions" /\ func_index > Len(funcs)
    /\ stack' = <<Frame("Emitted")>>
    /\ obs' = [obs EXCEPT !.last = "GenerateProgramEnd"]
    /\ UNCHANGED <<asm, stack_frame, func_index>>
    /\ BackendUnchanged

NextB ==
    \/ GenerateProgramBegin
    \/ GenerateProgramNext
    \/ GenerateProgramEnd

\* the compiler, from the AST to the assembly
NextAsm ==
    \/ NextL
    \/ TranslateToKoopaEnd
    \/ NextB

SpecAsm == Init /\ [][NextAsm]_vars

(***************************************************************************)
(* Properties of the lowering.                                             *)
(***************************************************************************)
\* the functions whose FuncDef::generate has returned
FinishedFuncs ==
    {f \in 1..Len(funcs) :
        /\ funcs[f].layout # <<>>
        /\ f # current_func \/ Top.k = "CompUnit"}

TerminatorKinds(fd) ==
    {fd.dfg[fd.insts[bb][Len(fd.insts[bb])]].kind :
        bb \in {b \in 1..Len(fd.insts) : fd.insts[b] # <<>>}}

BlockWellTerminated(fd, bb) ==
    LET is == fd.insts[bb] IN
    /\ is # <<>>
    /\ IsTerminator(fd.dfg[is[Len(is)]])
    /\ \A i \in 1..(Len(is) - 1) : ~IsTerminator(fd.dfg[is[i]])

\* C1: once a function is lowered, every basic block of its layout holds
\* exactly one terminator (Branch, Jump or Return), as its last instruction.
C1_OneTerminatorPerBlock ==
    \A f \in FinishedFuncs :
        \A k \in 1..Len(funcs[f].layout) :
            BlockWellTerminated(funcs[f], funcs[f].layout[k])

\* a lowered function with an if or while in it whose blocks end in all
\* three kinds of terminator
C1_Witness ==
    \E f \in FinishedFuncs :
        /\ Len(funcs[f].layout) >= 3
        /\ TerminatorKinds(funcs[f]) = {"Branch", "Jump", "Return"}

\* C4: whenever a function definition has been lowered the symbol table is
\* back at the level it had before, 0, the global scope alone.
C4_ScopeLevelRestored ==
    Top.k = "CompUnit" => Level(symbol_table) = 0 /\ Len(symbol_table) = 1

\* a function has just been lowered whose body declared a variable inside a
\* nested block (at level 2)
C4_Witness ==
    /\ obs.last = "FuncDefEnd"
    /\ Top.k = "CompUnit"
    /\ \E v \in 1..Len(funcs[current_func].dfg) :
          funcs[current_func].dfg[v].name = "@x_2"

\* C9: a Return statement, with or without an expression, leaves the current
\* block terminated, so no later statement of the same Block emits anything.
C9_ReturnTerminatesBlock ==
    /\ obs.last \in {"Return", "ReturnNone"} => IsCurrentBBTerminated(Ctx)
    /\ ~obs.dead_emit


(***************************************************************************)
(* The generator on programs with many parameters and arguments:           *)
(*     T g(int p1, ..., int pn) { }            (T void)                    *)
(*     T g(int p1, ..., int pn) { return 1; }  (T int)                     *)
(*     T f() { g(1, ..., 1); }                 (T void)                    *)
(*     T f() { return g(1, ..., 1); }          (T int)                     *)
(* as CompUnit::generate lowers them, written out value by value.          *)
(***************************************************************************)
MaxArgs == 521

ArgCounts == {0, 1, 8, 9, 10, MaxArgs - 9, MaxArgs - 1, MaxArgs}

ParamNames(n) == [i \in 1..n |-> "p" \o ToString(i)]

\* FuncDef::generate of g: alloc and store for every parameter, then the body
\* and the default return
CalleeFunc(n, ret, count) ==
    [FunctionData("@g", ret, ParamNames(n)) EXCEPT
        !.dfg = @ \o [k \in 1..(2 * n) |->
                         IF k % 2 = 1
                         THEN [Alloc(<<>>) EXCEPT !.name = "%p" \o ToString((k + 1) \div 2)]
                         ELSE Store(k \div 2, n + k - 1, <<>>)]
                  \o (IF ret = "i32" THEN <<Integer(1, <<>>), Return(3 * n + 1, <<>>)>>
                      ELSE <<Return(0, <<>>)>>),
        !.bbname = <<BBName("%entry", count)>>,
        !.layout = <<1>>,
        !.insts = <<[k \in 1..(2 * n) |-> n + k]
                    \o <<IF ret = "i32" THEN 3 * n + 2 ELSE 3 * n + 1>> >>]

\* FuncDef::generate of f: the arguments, the call of g, and the return
CallerFunc(n, ret, callee, count) ==
    [FunctionData("@f", ret, <<>>) EXCEPT
        !.dfg = [i \in 1..n |-> Integer(1, <<i>>)]
                  \o <<CallInst(callee, [i \in 1..n |-> i], ret, <<>>),
                       Return(IF ret = "i32" THEN n + 1 ELSE 0, <<>>)>>,
        !.bbname = <<BBName("%entry", count)>>,
        !.layout = <<1>>,
        !.insts = << <<n + 1, n + 2>> >>]

CallProgram(n, ret) ==
    LibFunctions \o <<CalleeFunc(n, ret, 0),
                      CallerFunc(n, ret, Len(SysyLibFunctions) + 1, 1)>>

InitB ==
    /\ \E n \in ArgCounts, ret \in {"i32", "unit"} : funcs = CallProgram(n, ret)
    /\ globals = <<>>
    /\ overflow_checks = TRUE
    /\ symbol_table =
          Insert(Insert(LibSymbolTable, "g", FunctionInfo(Len(SysyLibFunctions) + 1)),
                 "f", FunctionInfo(Len(SysyLibFunctions) + 2))
    /\ current_func = Len(SysyLibFunctions) + 2
    /\ current_bb = 1
    /\ bb_count = 2
    /\ loop_break_stack = <<>>
    /\ loop_continue_stack = <<>>
    /\ stack = <<Frame("Program")>>
    /\ budget = 0
    /\ obs = [last |-> "TranslateToKoopaEnd", dead_emit |-> FALSE, panic |-> ""]
    /\ asm = <<>>
    /\ stack_frame = <<>>
    /\ func_index = 0
    /\ run = NoRun
    /\ flat = NoFlat

SpecB == InitB /\ [][NextB]_vars

(***************************************************************************)
(* Properties of the assembly.                                             *)
(***************************************************************************)
JumpLines == {k \in 1..Len(asm) : asm[k].k = "inst" /\ asm[k].name \in {"j", "bnez"}}
\* the label a j or bnez line targets: its last operand
JumpTarget(line) == line.args[Len(line.args)].r
LabelLines(label) == {k \in 1..Len(asm) : asm[k].k = "label" /\ asm[k].name = label}

\* C10: in the assembly of a whole program, every label that a j or bnez
\* targets is defined by exactly one label line of the output.
C10_JumpTargetsDefinedOnce ==
    Top.k = "Emitted" =>
        \A k \in JumpLines : Cardinality(LabelLines(JumpTarget(asm[k]))) = 1

(***************************************************************************)
(* Properties of the frames and of the addresses in the assembly.          *)
(***************************************************************************)
\* the functions whose frame has been planned
PlannedFuncs == {f \in 1..Len(stack_frame) : funcs[f].layout # <<>>}
\* the instructions of a function, and its calls
InstsOf(fd) == UNION {{fd.insts[b][j] : j \in 1..Len(fd.insts[b])} : b \in 1..Len(fd.insts)}
CallsOf(fd) == {v \in InstsOf(fd) : fd.dfg[v].kind = "Call"}
\* 4 * max(0, max_call_args - 8)
OutArgsSize(fd) == 4 * Max({0} \cup {Len(fd.dfg[v].args) - 8 : v \in CallsOf(fd)})

FramePlanOk(fd, sf, out_args_size, ra_size) ==
    /\ sf.stack_size % 16 = 0
    /\ \A v \in InstsOf(fd) :
          fd.dfg[v].ty # "unit" =>
              /\ v \in DOMAIN sf.values_map
              /\ out_args_size <= sf.values_map[v]
              /\ sf.values_map[v] < sf.stack_size - ra_size
    /\ sf.ra_offset.some <=> CallsOf(fd) # {}
    /\ sf.ra_offset.some => sf.ra_offset.v = sf.stack_size - 4

\* C2: for every function, the planned stack size is a multiple of 16, the
\* slot offset of every non-unit instruction lies in
\* [out_args_size, stack_size - ra_size), and ra_offset is present exactly
\* when the function contains a Call, and is then stack_size - 4.
C2_FramePlan ==
    \A f \in PlannedFuncs :
        FramePlanOk(funcs[f], stack_frame[f], OutArgsSize(funcs[f]),
                    IF CallsOf(funcs[f]) # {} THEN 4 ELSE 0)

\* a frame with outgoing arguments on the stack, a slot and a saved ra
C2_Witness ==
    \E f \in PlannedFuncs :
        /\ OutArgsSize(funcs[f]) > 0
        /\ stack_frame[f].ra_offset.some
        /\ \E v \in DOMAIN stack_frame[f].values_map :
              stack_frame[f].values_map[v] = OutArgsSize(funcs[f])

IsInst(k, names) == asm[k].k = "inst" /\ asm[k].name \in names
FitsImm12(n) == -2048 <= n /\ n <= 2047

\* line k addresses through a register r that the two lines before it set
\* to sp + X:  li t0, X;  add r, sp, t0
Synthesized(k) ==
    /\ k > 2
    /\ IsInst(k - 2, {"li"}) /\ asm[k - 2].args[1] = Reg("t0")
    /\ asm[k - 2].args[2].o = "imm"
    /\ IsInst(k - 1, {"add"})
    /\ asm[k - 1].args = <<Reg(asm[k].args[2].r), Reg("sp"), Reg("t0")>>
\* a lw or sw line has an immediate that fits, on sp or on a synthesized address
WellAddressed(k) ==
    /\ asm[k].args[2].o = "mem"
    /\ FitsImm12(asm[k].args[2].n)
    /\ asm[k].args[2].r # "sp" => asm[k].args[2].n = 0 /\ Synthesized(k)
\* the offset from sp that a well addressed line reads or writes
EffOff(k) ==
    IF asm[k].args[2].r = "sp" THEN asm[k].args[2].n ELSE asm[k - 2].args[2].n

\* line k adjusts sp: addi sp, sp, X   or   li t0, X; add sp, sp, t0
IsSpAdjust(k) ==
    \/ IsInst(k, {"addi"}) /\ asm[k].args[1] = Reg("sp") /\ asm[k].args[2] = Reg("sp")
    \/ /\ IsInst(k, {"add"}) /\ asm[k].args = <<Reg("sp"), Reg("sp"), Reg("t0")>>
       /\ k > 1 /\ IsInst(k - 1, {"li"}) /\ asm[k - 1].args[1] = Reg("t0")
SpAdjust(k) == IF asm[k].name = "addi" THEN asm[k].args[3].n ELSE asm[k - 1].args[2].n

\* the functions whose lines are all written
EmittedFuncs == {f \in PlannedFuncs : f < func_index}

\* the frame of f is reached as planned: ra, the result of a call, and sp
FrameAddressed(f, sf) ==
    /\ sf.ra_offset.some =>
          \E k \in 1..Len(asm) :
              /\ asm[k].src.f = f /\ IsInst(k, {"sw"}) /\ asm[k].args[1] = Reg("ra")
              /\ WellAddressed(k) /\ EffOff(k) = sf.ra_offset.v
    /\ \A v \in DOMAIN sf.values_map :
          funcs[f].dfg[v].kind = "Call" =>
              \E k \in 1..Len(asm) :
                  /\ asm[k].src.f = f /\ asm[k].src.v = v
                  /\ IsInst(k, {"sw"}) /\ asm[k].args[1] = Reg("a0")
                  /\ WellAddressed(k) /\ EffOff(k) = sf.values_map[v]
    /\ sf.stack_size # 0 =>
          \A d \in {-sf.stack_size, sf.stack_size} :
              \E k \in 1..Len(asm) :
                  asm[k].src.f = f /\ IsSpAdjust(k) /\ SpAdjust(k) = d

\* C5: every lw, sw and addi of the output has an immediate in
\* [-2048, 2047]; an access at an offset outside that range goes through a
\* register set to sp + offset and uses 0(reg), and an adjustment of sp by a
\* stack size outside it is li and a register-register add.
C5_ImmediatesFit ==
    /\ \A k \in 1..Len(asm) :
          /\ IsInst(k, {"lw", "sw"}) => WellAddressed(k)
          /\ IsInst(k, {"addi"}) => FitsImm12(asm[k].args[3].n)
    /\ \A f \in EmittedFuncs : FrameAddressed(f, stack_frame[f])

\* a slot above 2047 written through a register, in a frame larger than 2047
C5_Witness ==
    /\ \E k \in 1..Len(asm) :
          /\ IsInst(k, {"sw"}) /\ asm[k].args[2] = Mem(0, "t0")
          /\ asm[k - 2].args[2].n > 2047
    /\ \E k \in 1..Len(asm) : IsInst(k, {"add"}) /\ IsSpAdjust(k) /\ SpAdjust(k) < -2047

\* the stores of the stack-passed arguments of a call, and the loads of the
\* stack-passed parameters (the frontend stores every parameter to its alloc)
ArgStores == {k \in 1..Len(asm) : IsInst(k, {"sw"}) /\ asm[k].src.arg >= 8}
ParamOf(k) == funcs[asm[k].src.f].dfg[funcs[asm[k].src.f].dfg[asm[k].src.v].a]
ArgLoads ==
    {k \in 1..Len(asm) :
        /\ IsInst(k, {"lw"}) /\ asm[k].src.v > 0
        /\ funcs[asm[k].src.f].dfg[asm[k].src.v].kind = "Store"
        /\ ParamOf(k).kind = "FuncArgRef" /\ ParamOf(k).n >= 8}
CalleeOf(k) == funcs[asm[k].src.f].dfg[asm[k].src.v].callee
\* by how much the prologue of g lowers sp
SpLowered(g) ==
    IF \E k \in 1..Len(asm) : asm[k].src.f = g /\ asm[k].src.v = 0 /\ IsSpAdjust(k)
    THEN -SpAdjust(CHOOSE k \in 1..Len(asm) :
                      asm[k].src.f = g /\ asm[k].src.v = 0 /\ IsSpAdjust(k))
    ELSE 0

\* C8: a call with more than 8 arguments stores argument i >= 8 at
\* (i - 8) * 4 from the caller's sp, below every slot and the saved ra of the
\* caller; the callee reads parameter i from (i - 8) * 4 + its stack size
\* from its own sp, which its prologue lowered by that size: the same address.
C8_StackArgsAgree ==
    /\ \A k \in ArgStores :
          /\ WellAddressed(k)
          /\ EffOff(k) = (asm[k].src.arg - 8) * 4
          /\ \A v \in DOMAIN stack_frame[asm[k].src.f].values_map :
                EffOff(k) + 4 <= stack_frame[asm[k].src.f].values_map[v]
          /\ EffOff(k) + 4 <= stack_frame[asm[k].src.f].ra_offset.v
    /\ \A k \in ArgLoads :
          /\ WellAddressed(k)
          /\ EffOff(k) = (ParamOf(k).n - 8) * 4 + stack_frame[asm[k].src.f].stack_size
          /\ SpLowered(asm[k].src.f) = stack_frame[asm[k].src.f].stack_size
    /\ \A k \in ArgStores :
          \A j \in ArgLoads :
              (asm[j].src.f = CalleeOf(k) /\ ParamOf(j).n = asm[k].src.arg) =>
                  EffOff(k) = EffOff(j) - SpLowered(asm[j].src.f)
    /\ \A f \in EmittedFuncs :
          \A v \in CallsOf(funcs[f]) :
              \A i \in 8..(Len(funcs[f].dfg[v].args) - 1) :
                  \E k \in ArgStores : asm[k].src = [f |-> f, v |-> v, arg |-> i]

\* the caller stored the last argument through a register, and the callee
\* read it
C8_Witness ==
    \E k \in ArgStores :
        \E j \in ArgLoads :
            /\ asm[j].src.f = CalleeOf(k) /\ ParamOf(j).n = asm[k].src.arg
            /\ asm[k].args[2].r # "sp" /\ asm[j].args[2].r # "sp"
            /\ SpLowered(asm[j].src.f) > 2047

(***************************************************************************)
(* The programs   [const int N = c;] int main() { [const int N = c;]       *)
(* return E; }   lowered, and the Koopa IR of main then executed one       *)
(* instruction at a time.                                                  *)
(***************************************************************************)
ConstInits == {Number(5), Number(0)}

Atoms == {Number(0), Number(1), Number(2), LVal("N")}
DivByZero == Binary("Div", Number(1), Number(0))
ArithExprs ==
    {Binary("Add", LVal("N"), Number(1)),
     Unary("Pos", Number(2)), Unary("Neg", Number(2)), Unary("Not", LVal("N")),
     Binary("Mul", Number(2), Binary("Add", Number(1), Number(2))),
     Binary("Div", Binary("Sub", Number(0), Number(7)), Number(2)),
     Binary("Mod", Unary("Neg", Number(7)), Number(2)),
     Binary("Lt", LVal("N"), Number(2)), Binary("Geq", LVal("N"), Number(5)),
     Binary("Neq", Number(1), Number(1)), Binary("Leq", Number(2), Number(1)),
     Binary("Eq", Unary("Pos", LVal("N")), Number(0)), Binary("Gt", Number(2), Number(1))}
LogicExprs ==
    {Binary(op, a, b) : op \in {"Or", "And"}, a \in Atoms,
                        b \in Atoms \cup {DivByZero, Binary("Add", LVal("N"), Number(1))}}
NestedExprs ==
    UNION {{Binary("Or", Binary("And", a, b), DivByZero),
            Binary("And", Binary("Or", a, b), DivByZero),
            Binary("Or", a, Binary("And", b, DivByZero)),
            Binary("And", a, Binary("Or", b, DivByZero)),
            Unary("Not", Binary("Or", a, b)),
            Binary("Add", Binary("Or", a, b), Binary("And", b, a))} :
           a \in {Number(0), Number(2)}, b \in {Number(0), LVal("N")}}
ReturnExprs == Atoms \cup ArithExprs \cup LogicExprs \cup NestedExprs

\* const int N = c;  at the top of the file or of main's body
DeclConstN ==
    \E init \in ConstInits :
        /\ run.expr = NoExpr
        /\ DeclConst("N", init)
        /\ run' = [run EXCEPT !.c = init.n]
        /\ UNCHANGED <<varsB, flat>>

\* return E;  once N is declared
StmtReturnExpr ==
    \E expr \in ReturnExprs :
        /\ Lookup(symbol_table, "N").kind = "ConstVariable"
        /\ StmtReturnOf(expr)
        /\ run' = [run EXCEPT !.expr = expr]
        /\ UNCHANGED <<varsB, flat>>

\* main, the function executed
MainData == funcs[Len(SysyLibFunctions) + 1]

\* the value of an operand: an Integer is its number, an instruction's
\* result is what the execution computed
ValueOf(fd, h) == IF fd.dfg[h].kind = "Integer" THEN fd.dfg[h].n ELSE run.vals[h]

\* a Binary of the IR on two i32
ExecBinary(op, x, y) ==
    CASE op = "Add" -> AddWrap(x, y)
      [] op = "Sub" -> SubWrap(x, y)
      [] op = "Mul" -> MulWrap(x, y)
      [] op = "Div" -> TruncDiv(x, y)
      [] op = "Mod" -> TruncRem(x, y)
      [] op = "Eq" -> Bool(x = y)
      [] op = "NotEq" -> Bool(x # y)
      [] op = "Lt" -> Bool(x < y)
      [] op = "Gt" -> Bool(x > y)
      [] op = "Le" -> Bool(x <= y)
      [] op = "Ge" -> Bool(x >= y)

\* the execution enters main at its first block
ExecStart ==
    /\ Running /\ Top.k = "CompUnit"
    /\ run.expr # NoExpr /\ ~run.on
    /\ run' = [run EXCEPT !.on = TRUE, !.bb = MainData.layout[1], !.idx = 1,
                          !.vals = [h \in 1..Len(MainData.dfg) |-> 0],
                          !.mem = [h \in 1..Len(MainData.dfg) |-> 0]]
    /\ UNCHANGED <<varsL, varsB, flat>>

\* the execution of instruction v, whose data is d; a division by zero ends it
ExecInst(fd, v, d) ==
    CASE d.kind = "Alloc" -> [run EXCEPT !.idx = @ + 1]
      [] d.kind = "Store" -> [run EXCEPT !.idx = @ + 1, !.mem[d.b] = ValueOf(fd, d.a)]
      [] d.kind = "Load" -> [run EXCEPT !.idx = @ + 1, !.vals[v] = run.mem[d.a]]
      [] d.kind = "Binary" ->
            IF d.op \in {"Div", "Mod"} /\ ValueOf(fd, d.b) = 0
            THEN [run EXCEPT !.divzero = TRUE, !.done = TRUE]
            ELSE [run EXCEPT !.idx = @ + 1,
                             !.vals[v] = ExecBinary(d.op, ValueOf(fd, d.a), ValueOf(fd, d.b))]
      [] d.kind = "Branch" ->
            [run EXCEPT !.bb = IF ValueOf(fd, d.a) # 0 THEN d.tbb ELSE d.fbb, !.idx = 1]
      [] d.kind = "Jump" -> [run EXCEPT !.bb = d.tbb, !.idx = 1]
      [] d.kind = "Return" -> [run EXCEPT !.done = TRUE, !.ret = ValueOf(fd, d.a)]

ExecStep ==
    /\ run.on /\ ~run.done
    /\ run.idx <= Len(MainData.insts[run.bb])
    /\ run' = [ExecInst(MainData, MainData.insts[run.bb][run.idx],
                        MainData.dfg[MainData.insts[run.bb][run.idx]])
                  EXCEPT !.trace = @ \cup {MainData.insts[run.bb][run.idx]}]
    /\ UNCHANGED <<varsL, varsB, flat>>

NextE ==
    \/ CompUnitGenerate /\ UNCHANGED varsO
    \/ DeclConstN
    \/ FuncDefBegin("main", "i32", <<>>) /\ UNCHANGED varsO
    \/ BlockNext /\ UNCHANGED varsO
    \/ StmtReturnExpr
    \/ BlockEnd /\ UNCHANGED varsO
    \/ FuncDefEnd /\ UNCHANGED varsO
    \/ ExecStart
    \/ ExecStep

SpecE == Init /\ [][NextE]_vars

(***************************************************************************)
(* What an expression means: its value given the value c of N, or that it  *)
(* divides by zero.  && and || evaluate their right operand only when the  *)
(* left one does not decide.                                               *)
(***************************************************************************)
Def(v) == [ok |-> TRUE, v |-> v]
Undef == [ok |-> FALSE, v |-> 0]

EvalUnary(op, x) ==
    IF ~x.ok THEN Undef
    ELSE CASE op = "Pos" -> x
           [] op = "Neg" -> Def(-x.v)
           [] op = "Not" -> Def(IF x.v = 0 THEN 1 ELSE 0)
EvalArith(op, x, y) ==
    IF ~x.ok \/ ~y.ok THEN Undef
    ELSE CASE op = "Add" -> Def(x.v + y.v)
           [] op = "Sub" -> Def(x.v - y.v)
           [] op = "Mul" -> Def(x.v * y.v)
           [] op = "Div" -> IF y.v = 0 THEN Undef ELSE Def(TruncDiv(x.v, y.v))
           [] op = "Mod" -> IF y.v = 0 THEN Undef ELSE Def(TruncRem(x.v, y.v))
           [] op = "Eq" -> Def(IF x.v = y.v THEN 1 ELSE 0)
           [] op = "Neq" -> Def(IF x.v # y.v THEN 1 ELSE 0)
           [] op = "Lt" -> Def(IF x.v < y.v THEN 1 ELSE 0)
           [] op = "Gt" -> Def(IF x.v > y.v THEN 1 ELSE 0)
           [] op = "Leq" -> Def(IF x.v <= y.v THEN 1 ELSE 0)
           [] op = "Geq" -> Def(IF x.v >= y.v THEN 1 ELSE 0)
EvalTruth(x) == IF ~x.ok THEN Undef ELSE Def(IF x.v # 0 THEN 1 ELSE 0)

RECURSIVE Eval(_, _)
EvalLogic(op, x, rhs, c) ==
    IF ~x.ok THEN Undef
    ELSE IF (op = "Or") = (x.v # 0) THEN EvalTruth(x)
    ELSE EvalTruth(Eval(rhs, c))
Eval(e, c) ==
    CASE e.e = "Number" -> Def(e.n)
      [] e.e = "LVal" -> Def(c)
      [] e.e = "Unary" -> EvalUnary(e.op, Eval(e.expr, c))
      [] e.e = "Binary" /\ e.op \in {"And", "Or"} -> EvalLogic(e.op, Eval(e.lhs, c), e.rhs, c)
      [] e.e = "Binary" -> EvalArith(e.op, Eval(e.lhs, c), Eval(e.rhs, c))

\* the paths of the nodes of e, and the node of e at path p
RECURSIVE Paths(_)
Paths(e) ==
    {<<>>} \cup
    CASE e.e = "Unary" -> {<<1>> \o p : p \in Paths(e.expr)}
      [] e.e = "Binary" -> {<<1>> \o p : p \in Paths(e.lhs)} \cup {<<2>> \o p : p \in Paths(e.rhs)}
      [] OTHER -> {}
RECURSIVE SubExpr(_, _)
SubExpr(e, p) ==
    IF p = <<>> THEN e
    ELSE IF e.e = "Unary" THEN SubExpr(e.expr, Tail(p))
    ELSE SubExpr(IF p[1] = 1 THEN e.lhs ELSE e.rhs, Tail(p))
IsPrefix(p, q) == Len(p) <= Len(q) /\ SubSeq(q, 1, Len(p)) = p

IsLogic(e) == e.e = "Binary" /\ e.op \in {"And", "Or"}
\* a node lowered by an operator of the IR: unary - and !, and the binary
\* operators that are not logical
IsOperator(e) == \/ e.e = "Unary" /\ e.op \in {"Neg", "Not"}
                 \/ e.e = "Binary" /\ ~IsLogic(e)
\* literals, references to constants and unary + only
RECURSIVE IsPlain(_)
IsPlain(e) == \/ e.e \in {"Number", "LVal"}
              \/ e.e = "Unary" /\ e.op = "Pos" /\ IsPlain(e.expr)
\* literals, references to constants and operators, none of them logical
IsArithmetic(e) == \A p \in Paths(e) : ~IsLogic(SubExpr(e, p))

\* the instructions of main, and the operand of its Return
MainInsts == InstsOf(MainData)
Returned ==
    MainData.dfg[CHOOSE v \in MainInsts : MainData.dfg[v].kind = "Return"].a
Lowered == run.expr # NoExpr
ReturnsInteger(n) ==
    /\ MainData.dfg[Returned].kind = "Integer" /\ MainData.dfg[Returned].n = n
    /\ \A v \in MainInsts : MainData.dfg[v].kind # "Binary"

\* C6 as stated: an expression of literals and unary and binary operators
\* (return N + 1 with const N = 5) is lowered without a Binary instruction, to
\* a single Integer equal to its value.
C6_ConstantExpressionFolded ==
    (Lowered /\ IsArithmetic(run.expr) /\ Eval(run.expr, run.c).ok) =>
        ReturnsInteger(Eval(run.expr, run.c).v)

\* C6: an expression of literals, references to constants and unary + is
\* lowered without a Binary instruction, to a single Integer equal to its
\* value; every unary -, unary ! and non-logical binary operator of an
\* expression is lowered to one Binary instruction of the mapped operation.
C6_OperatorsEmitBinary ==
    Lowered =>
        /\ IsPlain(run.expr) => ReturnsInteger(Eval(run.expr, run.c).v)
        /\ \A p \in Paths(run.expr) :
              IsOperator(SubExpr(run.expr, p)) =>
                  /\ Cardinality({v \in MainInsts : MainData.dfg[v].kind = "Binary"
                                                     /\ MainData.dfg[v].at = p}) = 1
                  /\ \A v \in MainInsts :
                        (MainData.dfg[v].kind = "Binary" /\ MainData.dfg[v].at = p) =>
                            MainData.dfg[v].op =
                                (CASE SubExpr(run.expr, p).op = "Neg" -> "Sub"
                                   [] SubExpr(run.expr, p).op = "Not" -> "Eq"
                                   [] SubExpr(run.expr, p).op = "Neq" -> "NotEq"
                                   [] SubExpr(run.expr, p).op = "Leq" -> "Le"
                                   [] SubExpr(run.expr, p).op = "Geq" -> "Ge"
                                   [] OTHER -> SubExpr(run.expr, p).op)

\* return N + 1 with const N = 5 lowered to add 5, 1, and executed
C6_Witness ==
    /\ run.expr = Binary("Add", LVal("N"), Number(1)) /\ run.c = 5
    /\ \E v \in MainInsts :
          /\ MainData.dfg[v].kind = "Binary" /\ MainData.dfg[v].op = "Add"
          /\ MainData.dfg[MainData.dfg[v].a] = Integer(5, <<1>>)
          /\ MainData.dfg[MainData.dfg[v].b] = Integer(1, <<2>>)
          /\ Returned = v
    /\ run.done /\ run.ret = 6

\* the logical nodes of the returned expression whose right operand holds
\* the executed instruction v
RhsOwners(v) ==
    {p \in Paths(run.expr) :
        IsLogic(SubExpr(run.expr, p)) /\ IsPrefix(p \o <<2>>, MainData.dfg[v].at)}

\* C7: the lowering of a || b (a && b) compiles; an instruction that
\* evaluates b is executed only when a evaluated to 0 (to nonzero); the
\* execution returns 1 or 0 as || and && demand, and divides by zero only
\* where the expression's meaning does:  1 || (1/0)  never divides.
C7_ShortCircuit ==
    Lowered =>
        /\ obs.panic = ""
        /\ \A v \in run.trace :
              \A p \in RhsOwners(v) :
                  /\ Eval(SubExpr(run.expr, p).lhs, run.c).ok
                  /\ (SubExpr(run.expr, p).op = "Or") =
                        (Eval(SubExpr(run.expr, p).lhs, run.c).v = 0)
        /\ Eval(run.expr, run.c).ok => ~run.divzero
        /\ (run.done /\ Eval(run.expr, run.c).ok) => run.ret = Eval(run.expr, run.c).v

\* 1 || (1/0) executed to its return of 1, and an execution that evaluated
\* the right operand of a ||
C7_Witness ==
    /\ run.expr = Binary("Or", Number(1), DivByZero)
    /\ run.done /\ run.ret = 1 /\ ~run.divzero

(***************************************************************************)
(* src/src/frontend/array_init_helper.rs.  An initializer is a scalar      *)
(* expression or a brace list of initializers.  H is the helper: the       *)
(* context G of the current function, the global values gl, the shape and  *)
(* flat_size, and result and cursor of flatten_init_list; written is the   *)
(* set of the positions that a scalar was written to, init the initializer *)
(* and lists the nested lists met, each with the dimension of the list     *)
(* around it and the cursor, and cursors the values the cursor was given,  *)
(* in order (history).                                                     *)
(***************************************************************************)
InitExpr(expr) == [i |-> "Expr", expr |-> expr]
InitListOf(list) == [i |-> "List", list |-> list]
NoInitList == [i |-> "None"]

\* global values that are no instructions of a function
\* a zero_init of one word whatever the type (not the code)
ZeroInitWord(size) == [kind |-> "ZeroInit", size |-> WORD_SIZE, name |-> ""]
ZeroInit(size) == [kind |-> "ZeroInit", size |-> size, name |-> ""]
Aggregate(elems) == [kind |-> "Aggregate", elems |-> elems, name |-> ""]
\* shape is the shape of the declaration, <<>> for a scalar (history)
GlobalAlloc(init, name, shape) ==
    [kind |-> "GlobalAlloc", init |-> init, name |-> name, shape |-> shape]
GetElemPtr(src, index, at) == [Value("GetElemPtr", "ptr", at) EXCEPT !.a = src, !.b = index]

\* ArrayInitHelper::new: flat_size
FlatSize(shape) == Capacity(shape, 1)

ArrayInitHelperNew(G, gl, global, shape) ==
    [G |-> G, gl |-> gl, global |-> global, shape |-> shape, flat_size |-> FlatSize(shape),
     result |-> <<>>, cursor |-> 0, written |-> {}, panic |-> "",
     init |-> NoInitList, lists |-> {}, cursors |-> <<>>]

\* new_global_value() in global scope, new_value() in a function
NewScoped(H, d) ==
    IF H.global THEN [H EXCEPT !.gl = Append(@, d)] ELSE [H EXCEPT !.G = NewValue(@, d)]
NextScoped(H) == IF H.global THEN -(Len(H.gl) + 1) ELSE NthValue(H.G, 1)

\* the result as Vec::with_capacity(flat_size) would leave it (not the code)
FlattenBeginWithCapacity(H) ==
    [NewScoped(H, Integer(0, <<>>)) EXCEPT !.result = <<>>, !.cursor = 0, !.cursors = <<0>>]

\* flatten_init_list: zero_val, result = vec![zero_val; flat_size], cursor = 0
FlattenBegin(H) ==
    [NewScoped(H, Integer(0, <<>>)) EXCEPT
        !.result = [i \in 1..H.flat_size |-> NextScoped(H)],
        !.cursor = 0,
        !.cursors = <<0>>]

\* flatten_recursive, Expr: result[*cursor] = val; *cursor += 1
WriteScalar(H, val) ==
    [H EXCEPT !.result[H.cursor + 1] = val,
              !.written = @ \cup {H.cursor},
              !.cursor = @ + 1,
              !.cursors = Append(@, H.cursor + 1)]
FlattenExprGlobal(H, int_val) ==
    IF int_val.panic THEN [H EXCEPT !.panic = "compute_constexpr"]
    ELSE WriteScalar(NewScoped(H, Integer(int_val.v, <<>>)), NextScoped(H))
FlattenExprLocal(H, V) == WriteScalar([H EXCEPT !.G = V.g], V.v)
FlattenExpr(H, expr) ==
    IF H.cursor >= Len(H.result) THEN H
    ELSE IF H.global THEN FlattenExprGlobal(H, ComputeConstexpr(H.G.fd, expr))
    ELSE FlattenExprLocal(H, GenExpr(H.G, expr, <<>>))

\* flatten_recursive, the loop that aligns the cursor for a nested list: the
\* dimension it leaves with, or its panic (a remainder by zero is one too)
RECURSIVE AlignCursor(_, _, _)
\* the loop leaving with the dimension after the last where it panics (not
\* the code)
AlignCursorLenient(shape, cursor, next_dim) ==
    IF Capacity(shape, next_dim) = 0
    THEN [panic |-> "remainder by zero", dim |-> 0]
    ELSE IF cursor % Capacity(shape, next_dim) = 0 THEN [panic |-> "", dim |-> next_dim]
    ELSE IF next_dim + 1 > Len(shape)
    THEN [panic |-> "", dim |-> next_dim + 1]
    ELSE AlignCursor(shape, cursor, next_dim + 1)
AlignCursor(shape, cursor, next_dim) ==
    IF Capacity(shape, next_dim) = 0
    THEN [panic |-> "remainder by zero", dim |-> 0]
    ELSE IF cursor % Capacity(shape, next_dim) = 0 THEN [panic |-> "", dim |-> next_dim]
    ELSE IF next_dim + 1 > Len(shape)
    THEN [panic |-> "cannot align cursor for nested init list", dim |-> 0]
    ELSE AlignCursor(shape, cursor, next_dim + 1)

RECURSIVE FlattenRecursive(_, _, _)
RECURSIVE FlattenItems(_, _, _, _)
\* flatten_recursive, List: after the loop over the items
FlattenListEnd(H, start_cursor, current_dim) ==
    IF H.panic # "" \/ current_dim = 0 THEN H
    ELSE IF H.cursor < start_cursor + Capacity(H.shape, current_dim)
    THEN [H EXCEPT !.cursor = start_cursor + Capacity(H.shape, current_dim),
                   !.cursors = Append(@, start_cursor + Capacity(H.shape, current_dim))]
    ELSE H
FlattenAligned(H, item, aligned) ==
    IF aligned.panic # "" THEN [H EXCEPT !.panic = aligned.panic]
    ELSE FlattenRecursive(H, item, aligned.dim)
\* a nested list is met in a list of dimension current_dim (history)
MetList(H, current_dim) ==
    [H EXCEPT !.lists = @ \cup {[depth |-> current_dim, cursor |-> H.cursor]}]
\* flatten_recursive, List: one item of the loop
FlattenItem(H, item, current_dim) ==
    IF item.i = "List"
    THEN FlattenAligned(MetList(H, current_dim), item,
                        AlignCursor(H.shape, H.cursor, current_dim + 1))
    ELSE FlattenRecursive(H, item, current_dim)
FlattenItems(H, list, i, current_dim) ==
    IF H.panic # "" \/ i > Len(list) THEN H
    ELSE FlattenItems(FlattenItem(H, list[i], current_dim), list, i + 1, current_dim)
FlattenRecursive(H, current_init, current_dim) ==
    IF current_init.i = "Expr" THEN FlattenExpr(H, current_init.expr)
    ELSE FlattenListEnd(FlattenItems(H, current_init.list, 1, current_dim),
                        H.cursor, current_dim)

\* flatten_init_list: the helper when it returns; the Vec returned is result
FlattenInitList(H, init) ==
    IF init.i = "None" THEN FlattenBegin(H)
    ELSE FlattenRecursive(FlattenBegin([H EXCEPT !.init = init]), init, 0)

\* generate_global_init: chunks(dim_size) of the current level, an Aggregate
\* for each chunk, dimension by dimension from the last; [gl, v]
Chunk(values, dim_size, c) ==
    SubSeq(values, (c - 1) * dim_size + 1,
           IF c * dim_size < Len(values) THEN c * dim_size ELSE Len(values))
\* chunks that yields the first chunk alone (not the code)
ChunkCountOne(values, dim_size) == 1

\* generate_global_init: the number of chunks that chunks(dim_size) yields
ChunkCount(values, dim_size) == (Len(values) + dim_size - 1) \div dim_size
RECURSIVE AggregateLevels(_, _, _, _)
AggregateLevels(gl, values, shape, k) ==
    IF k = 0 THEN [gl |-> gl, v |-> values[1]]
    ELSE AggregateLevels(
            gl \o [c \in 1..ChunkCount(values, shape[k]) |->
                      Aggregate(Chunk(values, shape[k], c))],
            [c \in 1..ChunkCount(values, shape[k]) |-> -(Len(gl) + c)],
            shape, k - 1)
HelperGenerateGlobalInit(gl, shape, flat_values) ==
    IF flat_values = <<>> THEN [gl |-> Append(gl, ZeroInit(WORD_SIZE)), v |-> -(Len(gl) + 1)]
    ELSE AggregateLevels(gl, flat_values, shape, Len(shape))

\* idx without idx %= stride (not the code)
LocalInitIdxUnreduced(shape, i, dim_idx) == i

\* generate_local_init: idx when the loop over the dimensions reaches dim_idx
\* for the flat value i (from 0)
RECURSIVE LocalInitIdx(_, _, _)
LocalInitIdx(shape, i, dim_idx) ==
    IF dim_idx = 1 THEN i
    ELSE LocalInitIdx(shape, i, dim_idx - 1) % Capacity(shape, dim_idx)

\* generate_local_init: the j-th of the values made for the flat value i (from
\* 0), the first of them being first: for each dimension the index and the
\* get_elem_ptr on the pointer so far, then the store
LocalInitValue(shape, alloc_ptr, flat_values, first, i, j) ==
    IF j = 2 * Len(shape) + 1
    THEN Store(flat_values[i + 1], IF j = 1 THEN alloc_ptr ELSE first + j - 2, <<>>)
    ELSE IF j % 2 = 1
    THEN Integer(LocalInitIdx(shape, i, (j + 1) \div 2)
                     \div Capacity(shape, (j + 1) \div 2 + 1), <<>>)
    ELSE GetElemPtr(IF j = 2 THEN alloc_ptr ELSE first + j - 3, first + j - 2, <<>>)

\* generate_local_init: the instructions appended for one flat value are its
\* get_elem_ptrs and its store
LocalInitInst(rank, first, r) ==
    IF r = rank THEN first + 2 * rank ELSE first + 2 * r + 1

\* generate_local_init, all flat values in order; per is the number of values
\* made for each
GenerateLocalInitPer(G, shape, alloc_ptr, flat_values, per) ==
    [G EXCEPT
        !.fd.dfg = @ \o [m \in 1..(Len(flat_values) * per) |->
                            LocalInitValue(shape, alloc_ptr, flat_values,
                                           Len(G.fd.dfg) + ((m - 1) \div per) * per + 1,
                                           (m - 1) \div per, ((m - 1) % per) + 1)],
        !.fd.insts[G.bb] = @ \o [m \in 1..(Len(flat_values) * (Len(shape) + 1)) |->
                            LocalInitInst(Len(shape),
                                          Len(G.fd.dfg)
                                              + ((m - 1) \div (Len(shape) + 1)) * per + 1,
                                          (m - 1) % (Len(shape) + 1))]]
GenerateLocalInit(G, shape, alloc_ptr, flat_values) ==
    GenerateLocalInitPer(G, shape, alloc_ptr, flat_values, 2 * Len(shape) + 1)

\* what flatten_init_list did, for the record
Flattened(H) ==
    [called |-> TRUE, global |-> H.global, shape |-> H.shape, init |-> H.init,
     panic |-> H.panic, result |-> H.result, written |-> H.written, lists |-> H.lists,
     cursors |-> H.cursors, cursor |-> H.cursor]

\* Decl::generate, Array in global scope, from the flattened initializer on
DeclArrayGlobalInit(var_name, H, init) ==
    /\ globals' = Append(init.gl, GlobalAlloc(init.v, "@" \o var_name, H.shape))
    /\ symbol_table' = Insert(symbol_table, var_name,
                              VariableInfo(-(Len(init.gl) + 1), TRUE))
    /\ flat' = Flattened(H)
    /\ obs' = [obs EXCEPT !.last = "DeclArray"]
    /\ UNCHANGED <<funcs, current_bb, bb_count, stack, budget>>

\* Decl::generate, Array in a function, from the flattened initializer on
DeclArrayLocalInit(var_name, alloc_ptr, H, G) ==
    /\ SetCtx(G)
    /\ Observe("DeclArray", Top, G)
    /\ symbol_table' = Insert(symbol_table, var_name, VariableInfo(alloc_ptr, FALSE))
    /\ flat' = Flattened(H)
    /\ stack' = Done
    /\ budget' = budget - 1
    /\ UNCHANGED globals

\* Decl::generate, Array with an initializer: flatten_init_list has panicked
DeclArrayPanic(H) ==
    /\ obs' = [obs EXCEPT !.last = "DeclArray", !.panic = H.panic]
    /\ flat' = Flattened(H)
    /\ UNCHANGED <<funcs, globals, symbol_table, current_bb, bb_count, stack, budget>>

DeclArrayFlattened(var_name, alloc_ptr, H) ==
    IF H.panic # "" THEN DeclArrayPanic(H)
    ELSE IF H.global
    THEN DeclArrayGlobalInit(var_name, H, HelperGenerateGlobalInit(H.gl, H.shape, H.result))
    ELSE DeclArrayLocalInit(var_name, alloc_ptr, H,
                            GenerateLocalInit(H.G, H.shape, alloc_ptr, H.result))

\* Decl::generate, Array without an initializer
DeclArrayDefault(var_name, shape, G) ==
    IF IsGlobalScope(symbol_table)
    THEN /\ globals' = globals \o <<ZeroInit(WORD_SIZE * FlatSize(shape)),
                                    GlobalAlloc(-(Len(globals) + 1), "@" \o var_name, shape)>>
         /\ symbol_table' = Insert(symbol_table, var_name,
                                   VariableInfo(-(Len(globals) + 2), TRUE))
         /\ obs' = [obs EXCEPT !.last = "DeclArray"]
         /\ UNCHANGED <<funcs, current_bb, bb_count, stack, budget, flat>>
    ELSE /\ SetCtx(G)
         /\ Observe("DeclArray", Top, G)
         /\ symbol_table' = Insert(symbol_table, var_name, VariableInfo(LastValue(G), FALSE))
         /\ stack' = Done
         /\ budget' = budget - 1
         /\ UNCHANGED <<globals, flat>>

\* the context that Decl::generate works in: no function in global scope
DeclCtx ==
    IF current_func = 0
    THEN [fd |-> FunctionData("", "i32", <<>>), bb |-> 0, cnt |-> bb_count]
    ELSE Ctx

\* Decl::generate, Array and ConstArray: shape holds the folded dimensions;
\* build_array_type asks for an array type of every dimension, and
\* Type::get_array asserts that the length is not zero; in a function the alloc
\* comes first
DeclArrayShaped(var_name, shape, init_list, G) ==
    IF \E i \in 1..Len(shape) : shape[i].panic
    THEN /\ obs' = [obs EXCEPT !.last = "DeclArray", !.panic = "compute_constexpr"]
         /\ UNCHANGED <<funcs, globals, symbol_table, current_bb, bb_count, stack,
                        budget, flat>>
    ELSE IF \E i \in 1..Len(shape) : shape[i].v = 0
    THEN /\ obs' = [obs EXCEPT !.last = "DeclArray", !.panic = "get_array"]
         /\ UNCHANGED <<funcs, globals, symbol_table, current_bb, bb_count, stack,
                        budget, flat>>
    ELSE IF init_list.i = "None"
    THEN DeclArrayDefault(var_name, [i \in 1..Len(shape) |-> shape[i].v], G)
    ELSE DeclArrayFlattened(
            var_name, LastValue(G),
            FlattenInitList(
                ArrayInitHelperNew(G, globals, IsGlobalScope(symbol_table),
                                   [i \in 1..Len(shape) |-> shape[i].v]),
                init_list))

DeclArray(var_name, dims, init_list) ==
    /\ Running
    /\ \/ Top.k = "CompUnit" /\ IsGlobalScope(symbol_table)
       \/ Top.k = "Stmt" /\ Top.item /\ budget > 0 /\ ~IsGlobalScope(symbol_table)
    /\ Lookup(symbol_table, var_name).kind = "None"
    /\ DeclArrayShaped(
          var_name, [i \in 1..Len(dims) |-> ComputeConstexpr(DeclCtx.fd, dims[i])],
          init_list,
          IF IsGlobalScope(symbol_table) THEN DeclCtx
          ELSE Emit(Ctx, [Alloc(<<>>) EXCEPT
                             !.name = "@" \o var_name \o "_"
                                          \o ToString(Level(symbol_table)),
                             !.dims = [i \in 1..Len(dims) |->
                                          ComputeConstexpr(DeclCtx.fd, dims[i]).v]]))
    /\ UNCHANGED <<overflow_checks, current_func, loop_break_stack, loop_continue_stack>>

(***************************************************************************)
(* The programs   [int a[d1]..[dk] [= init];] int main() { [int            *)
(* a[d1]..[dk] [= init];] }                                                *)
(***************************************************************************)
MaxDim == 3

Shapes ==
    {<<a>> : a \in 0..MaxDim} \cup {<<a, b>> : a, b \in 0..MaxDim} \cup {<<2, 2, 2>>}

Scalar(n) == InitExpr(Number(n))
InitLists ==
    {NoInitList,
     Scalar(7),
     InitListOf(<<>>),
     InitListOf(<<Scalar(1)>>),
     InitListOf(<<Scalar(1), Scalar(2)>>),
     InitListOf(<<Scalar(1), Scalar(2), Scalar(3), Scalar(4), Scalar(5)>>),
     InitListOf(<<Scalar(1), InitListOf(<<Scalar(2)>>), Scalar(3), Scalar(4)>>),
     InitListOf(<<InitListOf(<<Scalar(1), Scalar(2)>>), InitListOf(<<Scalar(3)>>)>>),
     InitListOf(<<InitListOf(<<Scalar(1)>>), InitListOf(<<Scalar(2)>>),
                  InitListOf(<<Scalar(3)>>)>>),
     InitListOf(<<Scalar(1), Scalar(2), InitListOf(<<Scalar(3)>>)>>),
     InitListOf(<<Scalar(1), Scalar(2), InitListOf(<<Scalar(3)>>), Scalar(4)>>),
     InitListOf(<<InitListOf(<<>>)>>),
     InitListOf(<<InitListOf(<<InitListOf(<<Scalar(1)>>)>>)>>),
     InitListOf(<<InitListOf(<<Scalar(1), Scalar(2), Scalar(3)>>),
                  InitListOf(<<Scalar(4), Scalar(5), Scalar(6)>>)>>),
     InitListOf(<<Scalar(1), InitListOf(<<Scalar(2), InitListOf(<<Scalar(3)>>)>>)>>),
     InitListOf(<<InitExpr(Binary("Add", Number(1), Number(2)))>>),
     InitListOf(<<Scalar(1), InitExpr(Binary("Div", Number(1), Number(0)))>>)}

\* int a[d1]..[dk] = init;
DeclArrayA ==
    \E shape \in Shapes, init_list \in InitLists :
        /\ DeclArray("a", [i \in 1..Len(shape) |-> Number(shape[i])], init_list)
        /\ UNCHANGED <<varsB, run>>

NextI ==
    \/ CompUnitGenerate /\ UNCHANGED varsO
    \/ DeclArrayA
    \/ FuncDefBegin("main", "i32", <<>>) /\ UNCHANGED varsO
    \/ BlockNext /\ UNCHANGED varsO
    \/ BlockEnd /\ UNCHANGED varsO
    \/ FuncDefEnd /\ UNCHANGED varsO

SpecI == Init /\ [][NextI]_vars

(***************************************************************************)
(* Properties of the flattened initializers.                               *)
(***************************************************************************)
\* d1 * ... * dk
RECURSIVE ProductOf(_)
ProductOf(shape) == IF shape = <<>> THEN 1 ELSE Head(shape) * ProductOf(Tail(shape))

\* the value that a handle of the flat sequence denotes
FlatValue(h) == IF h < 0 THEN globals[-h] ELSE funcs[current_func].dfg[h]
FlatNumbers == [i \in 1..Len(flat.result) |-> FlatValue(flat.result[i]).n]

\* C3: when flatten_init_list returns, its result has exactly d1 * ... * dk
\* handles, and every position that no scalar of the initializer was written
\* to holds the integer constant 0.
C3_FlatSizeAndZeros ==
    (flat.called /\ flat.panic = "") =>
        /\ Len(flat.result) = ProductOf(flat.shape)
        /\ \A pos \in 1..Len(flat.result) :
              (pos - 1) \notin flat.written =>
                  /\ FlatValue(flat.result[pos]).kind = "Integer"
                  /\ FlatValue(flat.result[pos]).n = 0

\* {1, 2, {3}, 4} for the shape [2][2][2]: eight handles, 1 2 3 0 4 0 0 0
C3_Witness ==
    /\ flat.called /\ flat.panic = ""
    /\ flat.shape = <<2, 2, 2>>
    /\ flat.written = {0, 1, 2, 4}
    /\ FlatNumbers = <<1, 2, 3, 0, 4, 0, 0, 0>>

(***************************************************************************)
(* The programs   int main() { ... }   whose body declares variables and   *)
(* arrays named x, in the body and in nested blocks.                       *)
(***************************************************************************)
MaxDecls == 4

InitD ==
    /\ funcs = <<>>
    /\ globals = <<>>
    /\ overflow_checks = TRUE
    /\ symbol_table = SymbolTableNew
    /\ current_func = 0
    /\ current_bb = 0
    /\ bb_count = 0
    /\ loop_break_stack = <<>>
    /\ loop_continue_stack = <<>>
    /\ stack = <<Frame("Start")>>
    /\ budget = MaxDecls
    /\ obs = [last |-> "", dead_emit |-> FALSE, panic |-> ""]
    /\ asm = <<>>
    /\ stack_frame = <<>>
    /\ func_index = 0
    /\ run = NoRun
    /\ flat = NoFlat

\* a declaration of var_name is legal where the current scope has none yet
Undeclared(var_name) == var_name \notin DOMAIN symbol_table[Len(symbol_table)].table

\* int x;  int x = 1;
DeclVarX == Undeclared("x") /\ DeclVar(ValueExprs) /\ UNCHANGED varsO

\* int x[1];  int x[2] = {1};
DeclArrayX ==
    /\ ~IsGlobalScope(symbol_table)
    /\ \E init_list \in {NoInitList, InitListOf(<<Scalar(1)>>)} :
          DeclArray("x", <<Number(IF init_list.i = "None" THEN 1 ELSE 2)>>, init_list)
    /\ UNCHANGED <<varsB, run>>

NextD ==
    \/ CompUnitGenerate /\ UNCHANGED varsO
    \/ FuncDefBegin("main", "i32", <<>>) /\ UNCHANGED varsO
    \/ BlockNext /\ UNCHANGED varsO
    \/ DeclVarX
    \/ DeclArrayX
    \/ StmtBlock /\ UNCHANGED varsO
    \/ StmtBlockExit /\ UNCHANGED varsO
    \/ BlockEnd /\ UNCHANGED varsO
    \/ FuncDefEnd /\ UNCHANGED varsO

SpecD == InitD /\ [][NextD]_vars

(***************************************************************************)
(* Properties of the names of the local declarations.                      *)
(***************************************************************************)
\* the allocs of the declarations of a function: those named @...
DeclAllocs(fd) ==
    {v \in 1..Len(fd.dfg) :
        /\ fd.dfg[v].kind = "Alloc"
        /\ Len(fd.dfg[v].name) > 0
        /\ SubSeq(fd.dfg[v].name, 1, 1) = "@"}

\* C11: within one function any two distinct declarations of a local variable
\* or array have distinct IR names, also two declarations of the same
\* identifier in nested scopes or in sibling scopes of the same level.
C11_LocalNamesDistinct ==
    \A f \in (Len(SysyLibFunctions) + 1)..Len(funcs) :
        \A v, w \in DeclAllocs(funcs[f]) :
            v # w => funcs[f].dfg[v].name # funcs[f].dfg[w].name

(***************************************************************************)
(* The programs   [int g [= e];] [int a[d1]..[dk] [= init];]               *)
(* [int b[d1]..[dk];] int main() { }   from the AST to the assembly.       *)
(***************************************************************************)
\* Decl::generate, Var in global scope: the folded initializer or zero_init,
\* the global_alloc and the symbol
DeclVarGlobal(var_name, init_expr) ==
    /\ Running /\ Top.k = "CompUnit" /\ IsGlobalScope(symbol_table)
    /\ Lookup(symbol_table, var_name).kind = "None"
    /\ LET init_value == IF init_expr.e = "None" THEN Ok(0)
                         ELSE ComputeConstexpr(DeclCtx.fd, init_expr)
       IN IF init_value.panic
          THEN /\ obs' = [obs EXCEPT !.last = "DeclVar", !.panic = "compute_constexpr"]
               /\ UNCHANGED <<globals, symbol_table>>
          ELSE /\ globals' = globals \o
                      <<IF init_expr.e = "None" THEN ZeroInit(WORD_SIZE)
                        ELSE Integer(init_value.v, <<>>),
                        GlobalAlloc(-(Len(globals) + 1), "@" \o var_name, <<>>)>>
               /\ symbol_table' = Insert(symbol_table, var_name,
                                         VariableInfo(-(Len(globals) + 2), TRUE))
               /\ obs' = [obs EXCEPT !.last = "DeclVar"]
    /\ UNCHANGED <<funcs, overflow_checks, current_func, current_bb, bb_count,
                   loop_break_stack, loop_continue_stack, stack, budget>>

GlobalShapes == {<<0>>, <<1>>, <<MaxDim>>, <<2, MaxDim>>, <<2, 2, 2>>}

\* int a[d1]..[dk] = init;
DeclArrayG ==
    /\ IsGlobalScope(symbol_table)
    /\ \E shape \in GlobalShapes, init_list \in InitLists :
          DeclArray("a", [i \in 1..Len(shape) |-> Number(shape[i])], init_list)
    /\ UNCHANGED <<varsB, run>>

\* int b[d1]..[dk];
DeclArrayB ==
    /\ IsGlobalScope(symbol_table)
    /\ \E shape \in {<<MaxDim>>, <<2, MaxDim>>} :
          DeclArray("b", [i \in 1..Len(shape) |-> Number(shape[i])], NoInitList)
    /\ UNCHANGED <<varsB, run>>

GlobalInits == {NoExpr, Number(5), Binary("Div", Number(1), Number(0))}

NextG ==
    \/ CompUnitGenerate /\ UNCHANGED varsO
    \/ (\E init_expr \in GlobalInits : DeclVarGlobal("g", init_expr)) /\ UNCHANGED varsO
    \/ DeclArrayG
    \/ DeclArrayB
    \/ FuncDefBegin("main", "i32", <<>>) /\ UNCHANGED varsO
    \/ BlockEnd /\ UNCHANGED varsO
    \/ FuncDefEnd /\ UNCHANGED varsO
    \/ TranslateToKoopaEnd
    \/ NextB

SpecG == Init /\ [][NextG]_vars

(***************************************************************************)
(* Properties of the data segment.                                         *)
(***************************************************************************)
IsData(line) == line.k = "directive" /\ line.name \in {"word", "zero"}

\* the number that the decimal string s denotes
MaxBytes == WORD_SIZE * (MaxDim + 1) * (MaxDim + 1) * (MaxDim + 1)
ParseBytes(s) == CHOOSE n \in 0..MaxBytes : ToString(n) = s

\* the .word and .zero lines that follow line k of the assembly
RECURSIVE DataLines(_)
DataLines(k) ==
    IF k < Len(asm) /\ IsData(asm[k + 1]) THEN <<asm[k + 1]>> \o DataLines(k + 1) ELSE <<>>

RECURSIVE DataBytes(_)
DataBytes(lines) ==
    IF lines = <<>> THEN 0
    ELSE (IF Head(lines).name = "word" THEN WORD_SIZE ELSE ParseBytes(Head(lines).args[1]))
         + DataBytes(Tail(lines))

GlobalAllocs == {g \in 1..Len(globals) : globals[g].kind = "GlobalAlloc"}
LabelOf(g) == CHOOSE k \in 1..Len(asm) : asm[k] = WriteLabel(GetGlobalValueName(-g))

\* the numbers of the initializer of the global g in flat order: of a scalar
\* its Integer, of an array what flatten_init_list returned
HasInit(g) ==
    IF globals[g].shape = <<>> THEN globals[-globals[g].init].kind = "Integer"
    ELSE globals[g].name = "@a" /\ flat.called
InitNumbers(g) ==
    IF globals[g].shape = <<>> THEN <<globals[-globals[g].init].n>> ELSE FlatNumbers

SizedData(g, lines) ==
    /\ DataBytes(lines) = WORD_SIZE * ProductOf(globals[g].shape)
    /\ IF HasInit(g)
       THEN lines = [j \in 1..Len(InitNumbers(g)) |->
                        WriteDirective("word", <<ToString(InitNumbers(g)[j])>>)]
       ELSE lines = <<WriteDirective("zero",
                                     <<ToString(WORD_SIZE * ProductOf(globals[g].shape))>>)>>

\* C12: the .word and .zero lines after the label of a global reserve the
\* size of its type, 4 bytes for a scalar and 4 * d1 * ... * dk for an array:
\* one .word per element in flat order when it has an initializer, one .zero
\* of the whole size when it has none.
C12_GlobalDataSized ==
    asm # <<>> => \A g \in GlobalAllocs : SizedData(g, DataLines(LabelOf(g)))

\* int g; int a[2][2][2] = {1, 2, {3}, 4}; int b[2][3]; has been emitted
C12_Witness ==
    /\ asm # <<>>
    /\ \E g, a, b \in GlobalAllocs :
          /\ globals[g].shape = <<>> /\ ~HasInit(g)
          /\ globals[a].shape = <<2, 2, 2>> /\ HasInit(a)
          /\ Len(DataLines(LabelOf(a))) = 8
          /\ globals[b].shape = <<2, MaxDim>> /\ ~HasInit(b)
          /\ DataBytes(DataLines(LabelOf(b))) = WORD_SIZE * 2 * MaxDim

(***************************************************************************)
(* The programs   [int g;] const int N = E;   for constant expressions E   *)
(* over the ends of the i32 range, in a build with and in one without      *)
(* overflow checks.  run.expr records E.                                   *)
(***************************************************************************)
InitC ==
    /\ funcs = <<>>
    /\ globals = <<>>
    /\ overflow_checks \in BOOLEAN
    /\ symbol_table = SymbolTableNew
    /\ current_func = 0
    /\ current_bb = 0
    /\ bb_count = 0
    /\ loop_break_stack = <<>>
    /\ loop_continue_stack = <<>>
    /\ stack = <<Frame("Start")>>
    /\ budget = MaxStmts
    /\ obs = [last |-> "", dead_emit |-> FALSE, panic |-> ""]
    /\ asm = <<>>
    /\ stack_frame = <<>>
    /\ func_index = 0
    /\ run = NoRun
    /\ flat = NoFlat

\* -2147483647 - 1
MinExpr == Binary("Sub", Unary("Neg", Number(I32Max)), Number(1))
Operands ==
    {Number(0), Number(1), Number(2), Number(7), Number(I32Max),
     Unary("Neg", Number(1)), Unary("Neg", Number(7)), MinExpr}
ArithOps == {"Add", "Sub", "Mul", "Div", "Mod"}
ConstArith ==
    {Binary(op, a, b) : op \in ArithOps, a \in Operands, b \in Operands}
        \cup {Unary(op, a) : op \in {"Pos", "Neg"}, a \in Operands}
        \cup {Binary("Add", Binary("Mul", Number(I32Max), Number(2)), Number(7))}

\* what a constant initializer may not hold: a division by zero, a variable, a
\* call
Unfoldable == {Binary("Div", Number(1), Number(0)), LVal("g"), Call("getint", <<>>)}
ConstLogic ==
    {Binary(op, l, r) : op \in {"And", "Or"},
                        l \in {Number(0), Number(1), Number(2)} \cup Unfoldable,
                        r \in {Number(0), Number(1), Number(2)} \cup Unfoldable}

\* const int N = E;
DeclConstE ==
    \E init_expr \in ConstArith \cup ConstLogic :
        /\ run.expr = NoExpr
        /\ IsGlobalScope(symbol_table)
        /\ DeclConst("N", init_expr)
        /\ run' = [run EXCEPT !.expr = init_expr]
        /\ UNCHANGED <<varsB, flat>>

NextC ==
    \/ CompUnitGenerate /\ UNCHANGED varsO
    \/ DeclVarGlobal("g", NoExpr) /\ UNCHANGED varsO
    \/ DeclConstE

SpecC == InitC /\ [][NextC]_vars

(***************************************************************************)
(* Properties of the constant expressions.  The 32-bit two's-complement    *)
(* operations are computed on 16-bit halves.                               *)
(***************************************************************************)
Half == 2 ^ 16
Hi(x) == x \div Half
Lo(x) == x % Half
\* the i32 with the low half lo and the high half hi, after the carry out of
\* lo and modulo 2^32
Join(hi, lo) ==
    (((hi + (lo \div Half) + (Half \div 2)) % Half) - (Half \div 2)) * Half + (lo % Half)

RefAdd(x, y) == Join(Hi(x) + Hi(y), Lo(x) + Lo(y))
RefSub(x, y) == Join(Hi(x) - Hi(y), Lo(x) - Lo(y))
\* x * y modulo 2^32 from the partial products; the low halves' product by
\* bytes of Lo(y)
RefMul(x, y) ==
    Join(((Hi(x) * Lo(y)) % Half) + ((Lo(x) * Hi(y)) % Half)
            + ((Lo(x) * (Lo(y) \div 256)) \div 256),
         (((Lo(x) * (Lo(y) \div 256)) % 256) * 256) + (Lo(x) * (Lo(y) % 256)))
\* the quotient rounded toward zero, y # 0
RECURSIVE RefDiv(_, _)
RefDiv(x, y) ==
    IF x = I32Min /\ y = -1 THEN I32Min
    ELSE IF y = I32Min THEN (IF x = I32Min THEN 1 ELSE 0)
    ELSE IF y < 0 THEN -RefDiv(x, -y)
    ELSE IF x < 0 /\ (x % y) # 0 THEN (x \div y) + 1
    ELSE x \div y
RefMod(x, y) == IF x = I32Min /\ y = -1 THEN 0 ELSE x - y * RefDiv(x, y)

\* the value of a constant expression, or that it has none
RECURSIVE RefConst(_)
RefArith(op, x, y) ==
    IF ~x.ok \/ ~y.ok THEN Undef
    ELSE CASE op = "Add" -> Def(RefAdd(x.v, y.v))
           [] op = "Sub" -> Def(RefSub(x.v, y.v))
           [] op = "Mul" -> Def(RefMul(x.v, y.v))
           [] op = "Div" -> IF y.v = 0 THEN Undef ELSE Def(RefDiv(x.v, y.v))
           [] op = "Mod" -> IF y.v = 0 THEN Undef ELSE Def(RefMod(x.v, y.v))
           [] op = "And" -> Def(IF x.v # 0 /\ y.v # 0 THEN 1 ELSE 0)
           [] op = "Or" -> Def(IF x.v # 0 \/ y.v # 0 THEN 1 ELSE 0)
RefUnary(op, x) ==
    IF ~x.ok THEN Undef
    ELSE CASE op = "Pos" -> x
           [] op = "Neg" -> Def(RefSub(0, x.v))
RefConst(e) ==
    CASE e.e = "Number" -> Def(e.n)
      [] e.e = "Unary" -> RefUnary(e.op, RefConst(e.expr))
      [] e.e = "Binary" -> RefArith(e.op, RefConst(e.lhs), RefConst(e.rhs))
      [] e.e \in {"LVal", "Call"} -> Undef

\* const int N = E; has been lowered, or has stopped the compiler
Folded == run.expr # NoExpr
FoldedN == globals[-Lookup(symbol_table, "N").h].n
FoldedAs(r) ==
    IF r.ok
    THEN /\ obs.panic = ""
         /\ Lookup(symbol_table, "N").kind = "ConstVariable"
         /\ FoldedN = r.v
    ELSE obs.panic # ""

\* C13: the constant evaluator computes +, -, *, unary -, / and % in 32-bit
\* two's complement, wrapping on overflow and never failing on it, with / and
\* % rounding toward zero; it is a fatal error when the divisor is 0.
C13_ConstArithmeticWraps ==
    (Folded /\ run.expr \in ConstArith) => FoldedAs(RefConst(run.expr))

\* C14: the constant evaluator evaluates both operands of && and || and gives
\* 0 or 1; an error in the right operand is fatal also when the left operand
\* alone decides the result.
C14_ConstLogicEager ==
    (Folded /\ run.expr \in ConstLogic) =>
        /\ FoldedAs(RefConst(run.expr))
        /\ obs.panic = "" => FoldedN \in {0, 1}
        /\ run.expr.rhs \in Unfoldable => obs.panic # ""

\* const int N = 1 || (1 / 0);  has stopped the compiler
C14_Witness ==
    /\ run.expr = Binary("Or", Number(1), Binary("Div", Number(1), Number(0)))
    /\ obs.panic # ""

(***************************************************************************)
(* symbol_table.rs called directly: any sequence of enter_scope, insert    *)
(* and exit_scope.  The frames of stack above the first are the callers    *)
(* that have entered a scope and not left it; seen is what every lookup    *)
(* returned when the scope was entered, and obs records the table before   *)
(* the last call and what the caller of the last exit_scope had seen       *)
(* (history).                                                              *)
(***************************************************************************)
MaxDepth == 2

TableNames == {"x", "y"}
TableInfos == {VariableInfo(1, FALSE), ConstVariableInfo(2, FALSE)}

LookupAll(st) == [name \in TableNames |-> Lookup(st, name)]

InitT ==
    /\ funcs = <<>>
    /\ globals = <<>>
    /\ overflow_checks = TRUE
    /\ symbol_table = SymbolTableNew
    /\ current_func = 0
    /\ current_bb = 0
    /\ bb_count = 0
    /\ loop_break_stack = <<>>
    /\ loop_continue_stack = <<>>
    /\ stack = <<Frame("Start")>>
    /\ budget = MaxStmts
    /\ obs = [last |-> "", dead_emit |-> FALSE, panic |-> "",
              before |-> SymbolTableNew, name |-> "", seen |-> LookupAll(SymbolTableNew)]
    /\ asm = <<>>
    /\ stack_frame = <<>>
    /\ func_index = 0
    /\ run = NoRun
    /\ flat = NoFlat

TableUnchanged ==
    UNCHANGED <<funcs, globals, overflow_checks, current_func, current_bb, bb_count,
                loop_break_stack, loop_continue_stack, budget, varsO>>

\* symbol_table.insert(name, info)
TableInsert ==
    /\ Running
    /\ \E name \in TableNames, info \in TableInfos :
          /\ symbol_table' = Insert(symbol_table, name, info)
          /\ obs' = [obs EXCEPT !.last = "insert", !.before = symbol_table, !.name = name]
    /\ UNCHANGED stack
    /\ TableUnchanged

\* symbol_table.enter_scope()
TableEnterScope ==
    /\ Running /\ Len(symbol_table) <= MaxDepth
    /\ symbol_table' = EnterScope(symbol_table)
    /\ stack' = Append(stack, [k |-> "Scope", seen |-> LookupAll(symbol_table)])
    /\ obs' = [obs EXCEPT !.last = "enter_scope", !.before = symbol_table]
    /\ TableUnchanged

\* symbol_table.exit_scope(): it panics where there is no outer scope
TableExitScope ==
    /\ Running
    /\ IF Len(symbol_table) = 1
       THEN /\ obs' = [obs EXCEPT !.last = "exit_scope", !.before = symbol_table,
                                  !.panic = "No outer scope to exit to"]
            /\ UNCHANGED <<symbol_table, stack>>
       ELSE /\ symbol_table' = ExitScope(symbol_table)
            /\ stack' = Pop
            /\ obs' = [obs EXCEPT !.last = "exit_scope", !.before = symbol_table,
                                  !.seen = Top.seen]
    /\ TableUnchanged

NextT ==
    \/ TableInsert
    \/ TableEnterScope
    \/ TableExitScope

SpecT == InitT /\ [][NextT]_vars

(***************************************************************************)
(* Properties of the symbol table.                                         *)
(***************************************************************************)
\* the frames of st that bind name, and the binding of the innermost of them
Binders(st, name) == {i \in 1..Len(st) : name \in DOMAIN st[i].table}
Innermost(st, name) ==
    IF Binders(st, name) = {} THEN [kind |-> "None", h |-> 0]
    ELSE st[CHOOSE i \in Binders(st, name) : \A j \in Binders(st, name) : j <= i].table[name]

\* C15: after any sequence of enter_scope, insert and exit_scope, lookup gives
\* the binding of the innermost frame that has the name; an insert changes the
\* top frame only; after an exit_scope every lookup gives what it gave right
\* before the matching enter_scope.
C15_ScopedLookup ==
    /\ \A name \in TableNames : Lookup(symbol_table, name) = Innermost(symbol_table, name)
    /\ obs.last = "insert" =>
          /\ Len(symbol_table) = Len(obs.before)
          /\ \A i \in 1..(Len(symbol_table) - 1) : symbol_table[i] = obs.before[i]
          /\ Level(symbol_table) = Level(obs.before)
    /\ (obs.last = "exit_scope" /\ obs.panic = "") => LookupAll(symbol_table) = obs.seen

\* a scope that shadowed x and declared y has just been left: x is the outer
\* binding again and y is unbound, inside a scope that is still open
C15_Witness ==
    /\ obs.last = "exit_scope" /\ obs.panic = ""
    /\ Len(symbol_table) = 2
    /\ Len(obs.before) = 3
    /\ "x" \in DOMAIN obs.before[3].table /\ "y" \in DOMAIN obs.before[3].table
    /\ "x" \in DOMAIN symbol_table[1].table
    /\ obs.before[3].table["x"] # symbol_table[1].table["x"]
    /\ Lookup(symbol_table, "x") = symbol_table[1].table["x"]
    /\ Lookup(symbol_table, "y").kind = "None"

(***************************************************************************)
(* Properties of the nested lists of an initializer.                       *)
(***************************************************************************)
\* {1, {2}, 3, 4}
GapsInit ==
    InitListOf(<<Scalar(1), InitListOf(<<Scalar(2)>>), Scalar(3), Scalar(4)>>)
FlattenedGaps == flat.called /\ flat.shape = <<2, 3>> /\ flat.init = GapsInit

\* C16: flattening {1, {2}, 3, 4} for the shape [2][3] completes without a
\* fatal error, with 1 at position 0, 2 at position 3, 3 and 4 at positions 4
\* and 5 and zeros at positions 1 and 2.
C16_GapsFlattened ==
    FlattenedGaps => flat.panic = "" /\ FlatNumbers = <<1, 0, 0, 2, 3, 4>>

\* C16 as the code has it: flattening {1, {2}, 3, 4} for the shape [2][3]
\* writes 1 at position 0 and stops with a fatal error at the list {2}, which
\* it meets at cursor 1, a multiple of neither 6 nor 3.
C16_UnalignedListAborts ==
    FlattenedGaps =>
        /\ flat.panic = "cannot align cursor for nested init list"
        /\ flat.written = {0}
        /\ flat.lists = {[depth |-> 0, cursor |-> 1]}
        /\ obs.panic = flat.panic

C16_Witness == FlattenedGaps /\ flat.panic # "" /\ flat.cursor = 1

\* an initializer whose braces mirror the shape, with numbers for scalars, and
\* the flat numbers it stands for: each list padded with zeros to the size of
\* its sub-array
RECURSIVE IsMirror(_, _, _)
IsMirror(init, shape, dim) ==
    IF dim > Len(shape) THEN init.i = "Expr" /\ init.expr.e = "Number"
    ELSE /\ init.i = "List"
         /\ Len(init.list) <= shape[dim]
         /\ \A j \in 1..Len(init.list) : IsMirror(init.list[j], shape, dim + 1)
RECURSIVE MirrorFlat(_, _, _)
MirrorFlat(init, shape, dim) ==
    IF dim > Len(shape) THEN <<init.expr.n>>
    ELSE LET rows == Flatten([j \in 1..Len(init.list) |->
                                 MirrorFlat(init.list[j], shape, dim + 1)])
         IN rows \o [j \in 1..(Capacity(shape, dim) - Len(rows)) |-> 0]

\* C19: a fully braced initializer whose nesting mirrors the shape puts the
\* scalar of multi-index (i1..ik) at the flat position sum_j i_j * prod_{m>j}
\* d_m, and a nested list that does not fill its sub-array moves the cursor
\* to the end of that sub-array only, so that the next list starts at the next
\* sub-array and its elements are stored.
C19_BracedRowMajor ==
    (flat.called /\ IsMirror(flat.init, flat.shape, 1)) =>
        /\ flat.panic = ""
        /\ FlatNumbers = MirrorFlat(flat.init, flat.shape, 1)

\* the cursor c of a list met in a list of dimension depth is a multiple of
\* the capacity of no dimension from depth + 1 to the last
Unalignable(shape, depth, c) ==
    \A d \in (depth + 1)..Len(shape) : c % Capacity(shape, d) # 0

\* C20: when a nested list is met at dimension depth and cursor c, and c is a
\* multiple of capacity(d') for no d' from depth + 1 to k (as for every list
\* nested inside a list of the last dimension), flattening stops with a fatal
\* error and gives no flat sequence.
C20_UnalignableListAborts ==
    (flat.called /\ \E l \in flat.lists : Unalignable(flat.shape, l.depth, l.cursor)) =>
        flat.panic # "" /\ obs.panic # ""

(***************************************************************************)
(* The generator on functions without calls and with many slots:           *)
(*     T g(int p1, ..., int pn) { }            (T void)                    *)
(*     T g(int p1, ..., int pn) { return 1; }  (T int)                     *)
(* whose n allocs are the instructions that are not of unit type.          *)
(***************************************************************************)
SlotCounts == {0, 1, 3, 4, 511, 512, 513, 599, 600, 601}

InitF ==
    /\ \E n \in SlotCounts, ret \in {"i32", "unit"} :
          funcs = LibFunctions \o <<CalleeFunc(n, ret, 0)>>
    /\ globals = <<>>
    /\ overflow_checks = TRUE
    /\ symbol_table = Insert(LibSymbolTable, "g", FunctionInfo(Len(SysyLibFunctions) + 1))
    /\ current_func = Len(SysyLibFunctions) + 1
    /\ current_bb = 1
    /\ bb_count = 1
    /\ loop_break_stack = <<>>
    /\ loop_continue_stack = <<>>
    /\ stack = <<Frame("Program")>>
    /\ budget = 0
    /\ obs = [last |-> "TranslateToKoopaEnd", dead_emit |-> FALSE, panic |-> ""]
    /\ asm = <<>>
    /\ stack_frame = <<>>
    /\ func_index = 0
    /\ run = NoRun
    /\ flat = NoFlat

SpecF == InitF /\ [][NextB]_vars

\* the instructions of a function that are not of unit type
SlotsOf(fd) == {v \in InstsOf(fd) : fd.dfg[v].ty # "unit"}
\* the functions with 600 of them and no call, once generated
Planned600 ==
    {f \in PlannedFuncs : Cardinality(SlotsOf(funcs[f])) = 600 /\ CallsOf(funcs[f]) = {}}
\* the lines written for function f, and those after its .globl and label
LinesOf(f) == SelectSeq(asm, LAMBDA line : line.src.f = f)
PrologueLines(f) == SubSeq(LinesOf(f), 3, 4)
\* li t0, -size; add sp, sp, t0
LiAdd(size) ==
    <<WriteInst("li", <<Reg("t0"), Imm(-size)>>),
      WriteInst("add", <<Reg("sp"), Reg("sp"), Reg("t0")>>)>>
Untagged(lines) == [j \in 1..Len(lines) |-> [lines[j] EXCEPT !.src = NoSrc]]

\* C17: for a function with 600 non-unit instructions and no calls the
\* planner yields stack_size 2416 and the prologue adjusts sp with
\* li t0, -2416; add sp, sp, t0 and not with an addi.
C17_Frame2416 ==
    \A f \in Planned600 :
        /\ stack_frame[f].stack_size = 2416
        /\ Untagged(PrologueLines(f)) = LiAdd(2416)

\* C17 as the code has it: for a function with 600 non-unit instructions and
\* no calls the planner yields stack_size 2400 (600 * 4, a multiple of 16) and
\* the prologue adjusts sp with li t0, -2400; add sp, sp, t0 and not with an
\* addi.
C17_Frame2400 ==
    \A f \in Planned600 :
        /\ stack_frame[f].stack_size = 2400
        /\ stack_frame[f].ra_offset = None
        /\ Untagged(PrologueLines(f)) = LiAdd(2400)
        /\ \A j \in 1..Len(LinesOf(f)) :
              ~(LinesOf(f)[j].name = "addi" /\ LinesOf(f)[j].args[1] = Reg("sp")
                  /\ LinesOf(f)[j].args[3].n < 0)

C17_Witness == Planned600 # {} /\ Top.k = "Emitted" /\ obs.panic = ""

(***************************************************************************)
(* Properties of the layout of the lines of the assembly.                  *)
(***************************************************************************)
SegmentDirectives == {"data", "text"}
\* the indentation the output format gives a line
FormatIndent(line) ==
    CASE line.k = "directive" -> IF line.name \in SegmentDirectives THEN "" ELSE "    "
      [] line.k = "inst" -> "    "
      [] OTHER -> ""

\* C18: in the assembly the two segment directives .data and .text start at
\* column zero, every other directive (.globl, .word, .zero) and every
\* instruction is indented by four spaces, and every label is unindented.
C18_SegmentsAtColumnZero ==
    \A k \in 1..Len(asm) :
        asm[k].k \in {"directive", "inst", "label"} => asm[k].indent = FormatIndent(asm[k])

(***************************************************************************)
(* Properties of the cursor of the flattening.                             *)
(***************************************************************************)
\* C21: while an initializer is flattened for a shape of N elements the
\* cursor starts at 0, never decreases and never exceeds N, also after the
\* rounding at the end of a nested list and for a list that begins when the
\* cursor is N already.
C21_CursorInRange ==
    flat.called =>
        /\ flat.cursors[1] = 0
        /\ \A j \in 2..Len(flat.cursors) : flat.cursors[j - 1] <= flat.cursors[j]
        /\ \A j \in 1..Len(flat.cursors) : flat.cursors[j] <= FlatSize(flat.shape)
        /\ flat.cursor = flat.cursors[Len(flat.cursors)]

(***************************************************************************)
(* The machine that runs the assembly of one function, line by line: RV32  *)
(* registers and a memory of words.  What the function's caller and its    *)
(* callees leave in registers and memory is not known: a register or a     *)
(* word that the function reads before writing it holds one of Unknowns,   *)
(* the same one throughout a run.                                          *)
(***************************************************************************)
RegNames ==
    {"x0", "sp", "ra", "t0", "t1", "t2"} \cup {"a" \o ToString(i) : i \in 0..7}
SpEntry == 2 ^ 20
RaEntry == 2 ^ 12
RaCalled == 2 ^ 13
Unknowns == {0, 2 ^ 16 + 4}

\* a bitwise operation on two halves of 16 bits, bit by bit
RECURSIVE Bits16(_, _, _, _)
Bits16(op, a, b, bits) ==
    IF bits = 0 THEN 0
    ELSE (CASE op = "xor" -> (a + b) % 2
            [] op = "and" -> (a % 2) * (b % 2)
            [] op = "or" -> IF (a % 2) + (b % 2) > 0 THEN 1 ELSE 0)
         + 2 * Bits16(op, a \div 2, b \div 2, bits - 1)
Bits32(op, x, y) ==
    Join(Bits16(op, Hi(x) % Half, Hi(y) % Half, 16), Bits16(op, Lo(x), Lo(y), 16))

\* what an instruction with the operands x and y leaves in rd
Alu(name, x, y) ==
    CASE name \in {"add", "addi"} -> AddWrap(x, y)
      [] name = "sub" -> SubWrap(x, y)
      [] name = "mul" -> MulWrap(x, y)
      [] name = "div" -> IF y = 0 THEN -1 ELSE TruncDiv(x, y)
      [] name = "rem" -> IF y = 0 THEN x ELSE TruncRem(x, y)
      [] name = "slt" -> Bool(x < y)
      [] name = "sgt" -> Bool(x > y)
      [] name \in {"xor", "and", "or"} -> Bits32(name, x, y)
      [] name = "slli" -> MulWrap(x, 2 ^ y)
      [] name = "seqz" -> Bool(x = 0)
      [] name = "snez" -> Bool(x # 0)
      [] name \in {"li", "mv"} -> x
AluNames ==
    {"add", "addi", "sub", "mul", "div", "rem", "slt", "sgt", "xor", "and", "or", "slli",
     "seqz", "snez", "li", "mv"}

\* the value of an operand that is a register or an immediate
OperandOf(c, arg) == IF arg.o = "imm" THEN arg.n ELSE IF arg.r = "x0" THEN 0 ELSE c.regs[arg.r]
\* the address of an operand offset(base)
AddressOf(c, arg) == AddWrap(c.regs[arg.r], arg.n)

SetReg(c, rd, x) == IF rd = "x0" THEN c ELSE [c EXCEPT !.regs[rd] = x]
SetWord(c, addr, x) ==
    [c EXCEPT !.ram = [a \in DOMAIN c.ram \cup {addr} |-> IF a = addr THEN x ELSE c.ram[a]]]

\* one instruction; a call leaves the unknown in the registers that it need
\* not keep
CpuInst(c, line) ==
    CASE line.name \in AluNames ->
            SetReg(c, line.args[1].r,
                   Alu(line.name, OperandOf(c, line.args[2]),
                       IF Len(line.args) > 2 THEN OperandOf(c, line.args[3]) ELSE 0))
      [] line.name = "lw" ->
            IF AddressOf(c, line.args[2]) \in DOMAIN c.ram
            THEN SetReg(c, line.args[1].r, c.ram[AddressOf(c, line.args[2])])
            ELSE [SetReg(c, line.args[1].r, c.unknown) EXCEPT !.junk = TRUE]
      [] line.name = "sw" ->
            [SetWord(c, AddressOf(c, line.args[2]), OperandOf(c, line.args[1]))
                EXCEPT !.wrote = @ \cup {[v |-> line.src.v,
                                          addr |-> AddressOf(c, line.args[2])]}]
      [] line.name = "call" ->
            [c EXCEPT !.regs = [r \in RegNames |->
                                   IF r = "ra" THEN RaCalled
                                   ELSE IF r \in {"sp", "x0"} THEN c.regs[r]
                                   ELSE c.unknown]]
      [] line.name = "ret" -> [c EXCEPT !.done = TRUE]
      [] OTHER -> [c EXCEPT !.fault = "unsupported " \o line.name]

\* the line of the label of function f
EntryOf(f) ==
    CHOOSE k \in 1..Len(asm) :
        asm[k].k = "label" /\ asm[k].src.f = f /\ asm[k].name = GetFuncName(funcs[f])

\* a function of the emitted program is called: sp and ra are the caller's,
\* the other registers hold what it left in them
CpuStart ==
    /\ Running /\ Top.k = "Emitted" /\ ~run.cpu.on
    /\ \E f \in {g \in 1..Len(funcs) : funcs[g].layout # <<>>}, unknown \in Unknowns :
          run' = [run EXCEPT !.cpu =
                     [NoCpu EXCEPT !.on = TRUE, !.f = f, !.pc = EntryOf(f),
                                   !.unknown = unknown,
                                   !.regs = [r \in RegNames |->
                                                CASE r = "sp" -> SpEntry
                                                  [] r = "ra" -> RaEntry
                                                  [] r = "x0" -> 0
                                                  [] OTHER -> unknown]]]
    /\ UNCHANGED <<varsL, varsB, flat>>

\* the machine runs the line at pc
CpuStep ==
    /\ run.cpu.on /\ ~run.cpu.done /\ run.cpu.fault = ""
    /\ run.cpu.pc <= Len(asm)
    /\ run' = [run EXCEPT !.cpu =
                  [(IF asm[run.cpu.pc].k = "inst" THEN CpuInst(run.cpu, asm[run.cpu.pc])
                    ELSE run.cpu)
                      EXCEPT !.pc = run.cpu.pc + 1, !.prev = run.cpu.pc]]
    /\ UNCHANGED <<varsL, varsB, flat>>

(***************************************************************************)
(* The programs that the machine runs, as CompUnit::generate lowers them,  *)
(* written out value by value:                                             *)
(*     int f() { int x1; ...; int xn; x1 = b; xn = a; return xn op x1; }   *)
(*     int f() { int x1; ...; int xn; int a[2] = {a, b}; return 1; }       *)
(* with, after the initialization of the array, a GetElemPtr to its first  *)
(* element and a Load through it, and the programs of CallProgram.         *)
(***************************************************************************)
LocalName(k) == "@x" \o ToString(k) \o "_1"
Locals(n) == [k \in 1..n |-> [Alloc(<<>>) EXCEPT !.name = LocalName(k)]]

BinaryFunc(n, op, a, b, count) ==
    [FunctionData("@f", "i32", <<>>) EXCEPT
        !.dfg = Locals(n)
                  \o <<Integer(b, <<>>), Store(n + 1, 1, <<>>),
                       Integer(a, <<>>), Store(n + 3, n, <<>>),
                       Load(n, <<>>), Load(1, <<>>),
                       BinaryInst(op, n + 5, n + 6, <<>>), Return(n + 7, <<>>)>>,
        !.bbname = <<BBName("%entry", count)>>,
        !.layout = <<1>>,
        !.insts = << [k \in 1..n |-> k] \o <<n + 2, n + 4, n + 5, n + 6, n + 7, n + 8>> >>]

\* the array is the value n + 1; generate_local_init makes, for each element,
\* the index, the GetElemPtr and the Store
ArrayFunc(n, a, b, count) ==
    [FunctionData("@f", "i32", <<>>) EXCEPT
        !.dfg = Locals(n)
                  \o <<[Alloc(<<>>) EXCEPT !.name = "@a_1", !.dims = <<2>>],
                       Integer(0, <<>>), Integer(a, <<>>), Integer(b, <<>>),
                       Integer(0, <<>>), GetElemPtr(n + 1, n + 5, <<>>), Store(n + 3, n + 6, <<>>),
                       Integer(1, <<>>), GetElemPtr(n + 1, n + 8, <<>>), Store(n + 4, n + 9, <<>>),
                       Integer(0, <<>>), GetElemPtr(n + 1, n + 11, <<>>), Load(n + 12, <<>>),
                       Return(n + 13, <<>>)>>,
        !.bbname = <<BBName("%entry", count)>>,
        !.layout = <<1>>,
        !.insts = << [k \in 1..n |-> k]
                     \o <<n + 1, n + 6, n + 7, n + 9, n + 10, n + 12, n + 13, n + 14>> >>]

FrameLocals == {1, 2, 510, 511, 512, 513}
CompareOps == {"Eq", "NotEq", "Le", "Ge"}
RunOps == CompareOps \cup {"Add", "Sub", "Lt", "Gt"}
I32Values == {-I32Max - 1, -I32Max, -2, -1, 0, 1, 2, I32Max - 1, I32Max}

RunPrograms ==
    {LibFunctions \o <<BinaryFunc(2, op, a, b, 0)>> :
        op \in CompareOps, a \in I32Values, b \in I32Values}
    \cup {LibFunctions \o <<BinaryFunc(n, op, 7, 5, 0)>> : n \in FrameLocals, op \in RunOps}
    \cup {LibFunctions \o <<ArrayFunc(n, 7, 5, 0)>> : n \in {0, 1, 511}}
    \cup {CallProgram(n, ret) : n \in {0, 9, MaxArgs}, ret \in {"i32", "unit"}}

InitR ==
    /\ funcs \in RunPrograms
    /\ globals = <<>>
    /\ overflow_checks = TRUE
    /\ symbol_table = LibSymbolTable
    /\ current_func = Len(funcs)
    /\ current_bb = 1
    /\ bb_count = Len(funcs) - Len(SysyLibFunctions)
    /\ loop_break_stack = <<>>
    /\ loop_continue_stack = <<>>
    /\ stack = <<Frame("Program")>>
    /\ budget = 0
    /\ obs = [last |-> "TranslateToKoopaEnd", dead_emit |-> FALSE, panic |-> ""]
    /\ asm = <<>>
    /\ stack_frame = <<>>
    /\ func_index = 0
    /\ run = NoRun
    /\ flat = NoFlat

NextR ==
    \/ NextB
    \/ CpuStart
    \/ CpuStep

SpecR == InitR /\ [][NextR]_vars

(***************************************************************************)
(* Properties of the code that runs.                                       *)
(***************************************************************************)
CpuFunc == funcs[run.cpu.f]
CpuFrame == stack_frame[run.cpu.f]
\* the instruction of the IR whose lines the machine has just run to the last
RanInst ==
    IF /\ run.cpu.on /\ run.cpu.prev > 0 /\ run.cpu.fault = ""
       /\ asm[run.cpu.prev].src.f = run.cpu.f
       /\ \/ run.cpu.pc > Len(asm)
          \/ asm[run.cpu.pc].src.v # asm[run.cpu.prev].src.v
          \/ asm[run.cpu.pc].src.f # run.cpu.f
    THEN asm[run.cpu.prev].src.v
    ELSE 0
\* the word of the frame slot of value, while the body runs
FrameBase == SpEntry - CpuFrame.stack_size
SlotAddress(value) == FrameBase + GetStackOffset(CpuFrame, value)
SlotHolds(value, x) ==
    /\ HasSlot(CpuFrame, value)
    /\ SlotAddress(value) \in DOMAIN run.cpu.ram
    /\ run.cpu.ram[SlotAddress(value)] = x
\* the value of an operand: of an Integer its number, of a parameter what the
\* caller passed, of an instruction the word of its slot
OperandKnown(value) ==
    CpuFunc.dfg[value].kind \in {"Integer", "FuncArgRef"}
        \/ (HasSlot(CpuFrame, value) /\ SlotAddress(value) \in DOMAIN run.cpu.ram)
OperandWord(value) ==
    CASE CpuFunc.dfg[value].kind = "Integer" -> CpuFunc.dfg[value].n
      [] CpuFunc.dfg[value].kind = "FuncArgRef" -> run.cpu.unknown
      [] OTHER -> run.cpu.ram[SlotAddress(value)]

BinaryRan(d, value) ==
    /\ OperandKnown(d.a) /\ OperandKnown(d.b)
    /\ SlotHolds(value, ExecBinary(d.op, OperandWord(d.a), OperandWord(d.b)))
StoreRan(d) == OperandKnown(d.a) /\ SlotHolds(d.b, OperandWord(d.a))
IsLocalStore(d) == d.kind = "Store" /\ d.b > 0 /\ CpuFunc.dfg[d.b].kind = "Alloc"

\* C22: the synthesis of a large offset never overwrites a register that
\* holds a live operand or the value being stored: for every frame, slots
\* above 2047 included, the lines of Binary(op, lhs, rhs) leave op(lhs, rhs)
\* in the slot of the instruction and those of Store(v, dest) leave the value
\* of v in the slot of dest.
C22_OperandsSurviveSynthesis ==
    RanInst # 0 =>
        /\ CpuFunc.dfg[RanInst].kind = "Binary" => BinaryRan(CpuFunc.dfg[RanInst], RanInst)
        /\ IsLocalStore(CpuFunc.dfg[RanInst]) => StoreRan(CpuFunc.dfg[RanInst])

\* the same for the frames whose slots are all within the 12-bit range
SmallFrame == \A v \in DOMAIN CpuFrame.values_map : CpuFrame.values_map[v] <= MAX_IMM_12
OperandsSurviveInSmallFrames ==
    (RanInst # 0 /\ SmallFrame) => C22_OperandsSurviveSynthesis

\* the instructions of the function that runs, by kind
CpuInsts(kind) == {v \in InstsOf(CpuFunc) : CpuFunc.dfg[v].kind = kind}
IsElemPtr(value) == value > 0 /\ CpuFunc.dfg[value].kind = "GetElemPtr"
\* two GetElemPtr on the same array with the same index
SameElement(p, q) ==
    /\ CpuFunc.dfg[p].a = CpuFunc.dfg[q].a
    /\ CpuFunc.dfg[CpuFunc.dfg[p].b].n = CpuFunc.dfg[CpuFunc.dfg[q].b].n
ElemStores == {s \in CpuInsts("Store") : IsElemPtr(CpuFunc.dfg[s].b)}
ElemLoads == {l \in CpuInsts("Load") : IsElemPtr(CpuFunc.dfg[l].a)}
WroteOf(s) == {w.addr : w \in {x \in run.cpu.wrote : x.v = s}}
SpillSlots == {SlotAddress(v) : v \in DOMAIN CpuFrame.values_map}

\* C23: in the code of a local array a Store through a GetElemPtr pointer
\* followed by a Load through a GetElemPtr pointer to the same element reads
\* the stored value back, and the stores to two different elements write two
\* different words, neither of them the spill slot of an instruction.
C23_ElementsStoredAndRead ==
    (run.cpu.on /\ run.cpu.done) =>
        /\ \A l \in ElemLoads, s \in ElemStores :
              (s < l /\ SameElement(CpuFunc.dfg[s].b, CpuFunc.dfg[l].a)) =>
                  SlotHolds(l, OperandWord(CpuFunc.dfg[s].a))
        /\ \A s \in ElemStores, t \in ElemStores :
              ~SameElement(CpuFunc.dfg[s].b, CpuFunc.dfg[t].b) =>
                  WroteOf(s) \cap WroteOf(t) = {}
        /\ \A s \in ElemStores : WroteOf(s) # {} /\ WroteOf(s) \cap SpillSlots = {}

(***************************************************************************)
(* Properties of the entry and the exits of a function.                    *)
(***************************************************************************)
\* the lines of function f written for the instruction v, 0 for those written
\* before its body, and the positions in them of the instructions that
\* write the register rd
LinesFor(f, v) ==
    SelectSeq(asm, LAMBDA line : line.src.f = f /\ line.src.v = v /\ line.k = "inst")
Writes(lines, rd) ==
    {j \in 1..Len(lines) : lines[j].name # "sw" /\ lines[j].name # "ret"
                             /\ lines[j].args[1] = Reg(rd)}
SavesRa(lines) ==
    {j \in 1..Len(lines) : lines[j].name = "sw" /\ lines[j].args[1] = Reg("ra")}
Before(S, T) == \A i \in S, j \in T : i < j

\* ra is saved after the prologue, and only when the function has a call
EntryOk(fd, lines) ==
    /\ SavesRa(lines) # {} <=> CallsOf(fd) # {}
    /\ Before(Writes(lines, "sp"), SavesRa(lines))
    /\ \A j \in SavesRa(lines) : j = Len(lines)
\* the lines of a Return: the value to a0, ra reloaded, sp adjusted, ret
ExitOk(fd, sf, d, lines) ==
    /\ Writes(lines, "a0") # {} <=> d.a # 0
    /\ Writes(lines, "ra") # {} <=> CallsOf(fd) # {}
    /\ Writes(lines, "sp") # {} <=> sf.stack_size # 0
    /\ Before(Writes(lines, "a0"), Writes(lines, "ra"))
    /\ Before(Writes(lines, "a0") \cup Writes(lines, "ra"), Writes(lines, "sp"))
    /\ lines[Len(lines)].name = "ret"
    /\ \A j \in 1..(Len(lines) - 1) : lines[j].name # "ret"
ReturnsOf(fd) == {v \in InstsOf(fd) : fd.dfg[v].kind = "Return"}

\* C24: in every function ra is saved right after the prologue iff the
\* function has a Call, and the lines of every Return load the return value,
\* if any, into a0, then reload ra from the slot it was saved to (iff it was
\* saved), then add to sp the stack_size that the prologue subtracted, then
\* ret; so that sp and ra hold at every ret what they held at the entry.
C24_EntryStateAtRet ==
    /\ Top.k = "Emitted" =>
          \A f \in PlannedFuncs :
              /\ EntryOk(funcs[f], LinesFor(f, 0))
              /\ \A v \in ReturnsOf(funcs[f]) :
                    ExitOk(funcs[f], stack_frame[f], funcs[f].dfg[v], LinesFor(f, v))
    /\ (run.cpu.on /\ run.cpu.done) =>
          /\ run.cpu.regs["sp"] = SpEntry
          /\ run.cpu.regs["ra"] = RaEntry
          /\ asm[run.cpu.prev].name = "ret"

C24_Witness ==
    /\ run.cpu.on /\ run.cpu.done
    /\ CallsOf(CpuFunc) # {}
    /\ OutArgsSize(CpuFunc) > 0
    /\ [v |-> 0, addr |-> FrameBase + CpuFrame.ra_offset.v] \in run.cpu.wrote

\* 1 when the comparison op holds of the signed x and y, else 0
Compares(op, x, y) ==
    Bool(CASE op = "Eq" -> x = y
           [] op = "NotEq" -> x # y
           [] op = "Le" -> x <= y
           [] op = "Ge" -> x >= y)
CompareRan ==
    RanInst # 0 /\ CpuFunc.dfg[RanInst].kind = "Binary" /\ CpuFunc.dfg[RanInst].op \in CompareOps

\* C27: for all 32-bit signed lhs and rhs, the lines of Binary eq, neq, le
\* and ge leave in the result slot exactly 1 when lhs == rhs, lhs != rhs,
\* lhs <= rhs and lhs >= rhs (signed) respectively, and 0 otherwise.
C27_ComparisonsExact ==
    CompareRan =>
        /\ OperandKnown(CpuFunc.dfg[RanInst].a) /\ OperandKnown(CpuFunc.dfg[RanInst].b)
        /\ SlotHolds(RanInst, Compares(CpuFunc.dfg[RanInst].op,
                                       OperandWord(CpuFunc.dfg[RanInst].a),
                                       OperandWord(CpuFunc.dfg[RanInst].b)))

\* the same in the frames whose slots are all within the 12-bit range
ComparisonsExactInSmallFrames == (CompareRan /\ SmallFrame) => C27_ComparisonsExact

(***************************************************************************)
(* The programs of nested loops: functions main and f whose bodies are     *)
(* made of while (1), if (1), blocks, break and continue, the last two     *)
(* inside a loop only.                                                     *)
(***************************************************************************)
MaxLoopStmts == 5

LoopFuncDefs ==
    {[func_name |-> "main", func_type |-> "i32", params |-> <<>>],
     [func_name |-> "f", func_type |-> "unit", params |-> <<>>]}

InitW ==
    /\ funcs = <<>>
    /\ globals = <<>>
    /\ overflow_checks = TRUE
    /\ symbol_table = SymbolTableNew
    /\ current_func = 0
    /\ current_bb = 0
    /\ bb_count = 0
    /\ loop_break_stack = <<>>
    /\ loop_continue_stack = <<>>
    /\ stack = <<Frame("Start")>>
    /\ budget = MaxLoopStmts
    /\ obs = [last |-> "", dead_emit |-> FALSE, panic |-> ""]
    /\ asm = <<>>
    /\ stack_frame = <<>>
    /\ func_index = 0
    /\ run = NoRun
    /\ flat = NoFlat

\* a function is defined once
FuncDefW ==
    \E d \in LoopFuncDefs :
        /\ Lookup(symbol_table, d.func_name).kind = "None"
        /\ FuncDefBegin(d.func_name, d.func_type, d.params)

NextW ==
    \/ CompUnitGenerate /\ UNCHANGED varsO
    \/ FuncDefW /\ UNCHANGED varsO
    \/ FuncDefEnd /\ UNCHANGED varsO
    \/ BlockEnd /\ UNCHANGED varsO
    \/ BlockNext /\ UNCHANGED varsO
    \/ StmtBlock /\ UNCHANGED varsO
    \/ StmtBlockExit /\ UNCHANGED varsO
    \/ StmtIf({Number(1)}) /\ UNCHANGED varsO
    \/ IfAfterThen /\ UNCHANGED varsO
    \/ IfAfterElse /\ UNCHANGED varsO
    \/ StmtWhile({Number(1)}) /\ UNCHANGED varsO
    \/ WhileAfterBody /\ UNCHANGED varsO
    \/ StmtBreak /\ UNCHANGED varsO
    \/ StmtContinue /\ UNCHANGED varsO

SpecW == InitW /\ [][NextW]_vars

(***************************************************************************)
(* Properties of the loops.                                                *)
(***************************************************************************)
\* the while statements whose body is being lowered, outermost first: their
\* frames in the stack of the generate calls
WhileFrames == SelectSeq(stack, LAMBDA fr : fr.k = "WhileBody")
InLoop == WhileFrames # <<>>
InnermostWhile == WhileFrames[Len(WhileFrames)]
\* the instruction appended last to the current block
LastInst == Ctx.fd.dfg[Ctx.fd.insts[current_bb][Len(Ctx.fd.insts[current_bb])]]
CurrentBBName == Ctx.fd.bbname[current_bb]

\* C25: in any nesting of while loops a break is lowered to a Jump to the end
\* block, and a continue to a Jump to the condition block, of the innermost
\* while that encloses it; once an inner while has been lowered, a break or
\* continue in the rest of the outer body targets the outer loop again.
C25_InnermostLoopTargeted ==
    /\ obs.last = "Break" =>
          /\ InLoop
          /\ LastInst = Jump(InnermostWhile.end_bb, <<>>)
    /\ obs.last = "Continue" =>
          /\ InLoop
          /\ LastInst = Jump(InnermostWhile.cond_bb, <<>>)

\* a break lowered in an outer body right after an inner while: the current
\* block is the inner loop's end block, the target the outer loop's
C25_Witness ==
    /\ obs.last = "Break"
    /\ Len(WhileFrames) = 1
    /\ \E c \in 0..(3 * MaxLoopStmts) : CurrentBBName = BBName("%while_end", c)
    /\ Ctx.fd.bbname[InnermostWhile.end_bb] # CurrentBBName
    /\ LastInst = Jump(InnermostWhile.end_bb, <<>>)

\* C30: at every point of lowering loop_break_stack and loop_continue_stack
\* have the same length, the number of while bodies being lowered, and both
\* are empty whenever set_current_func runs (between function definitions),
\* so that its two assertions never fail.
C30_LoopStacksBalanced ==
    /\ Len(loop_break_stack) = Len(loop_continue_stack)
    /\ Len(loop_break_stack) = Len(WhileFrames)
    /\ Top.k = "CompUnit" => loop_break_stack = <<>> /\ loop_continue_stack = <<>>
    /\ obs.panic # "set_current_func"

\* the end blocks of the while statements lowered in a function
WhileEnds(fd) ==
    {bb \in DOMAIN fd.bbname :
        \E c \in 0..(3 * MaxLoopStmts) : fd.bbname[bb] = BBName("%while_end", c)}

\* set_current_func has just run for a second function, after a first one
\* in which two while statements were lowered
C30_Witness ==
    /\ obs.last = "FuncDefBegin"
    /\ UserFuncs = 2
    /\ Cardinality(WhileEnds(funcs[current_func - 1])) >= 2
    /\ loop_break_stack = <<>>

(***************************************************************************)
(* Properties of the default return.                                       *)
(***************************************************************************)
\* the instructions that the step has appended to block bb of the current
\* function, when the step has changed nothing else in its body
AppendedTo(bb) ==
    LET fd == funcs[current_func]
        after == funcs'[current_func]
        is == fd.insts[bb]
    IN  IF /\ current_func' = current_func /\ current_bb' = bb
           /\ Len(funcs') = Len(funcs)
           /\ after.layout = fd.layout /\ after.bbname = fd.bbname
           /\ DOMAIN after.insts = DOMAIN fd.insts
           /\ \A other \in DOMAIN fd.insts : other # bb => after.insts[other] = fd.insts[other]
           /\ Len(after.insts[bb]) >= Len(is)
           /\ SubSeq(after.insts[bb], 1, Len(is)) = is
           /\ Len(after.dfg) >= Len(fd.dfg)
           /\ SubSeq(after.dfg, 1, Len(fd.dfg)) = fd.dfg
        THEN [ok |-> TRUE,
              insts |-> [i \in 1..(Len(after.insts[bb]) - Len(is)) |->
                            after.dfg[after.insts[bb][Len(is) + i]]],
              values |-> Len(after.dfg) - Len(fd.dfg)]
        ELSE [ok |-> FALSE, insts |-> <<>>, values |-> 0]

\* the operand of a Return: the constant it returns, "none" without operand
ReturnedBy(fd, ret) ==
    IF ret.kind # "Return" THEN "not a return"
    ELSE IF ret.a = 0 THEN "none"
    ELSE IF fd.dfg[ret.a].kind = "Integer" THEN ToString(fd.dfg[ret.a].n)
    ELSE "not a constant"

\* C26: when the block that is current after the lowering of a function's
\* body is not terminated, the end of FuncDef::generate appends exactly one
\* Return to it, of the Integer constant 0 for an int function and without
\* value for a void function; when it is terminated nothing is appended.
C26_DefaultReturn ==
    [][(Top.k = "FuncDef" /\ obs'.last = "FuncDefEnd") =>
          LET A == AppendedTo(current_bb) IN
          /\ A.ok
          /\ IF IsCurrentBBTerminated(Ctx)
             THEN A.insts = <<>> /\ A.values = 0
             ELSE /\ Len(A.insts) = 1
                  /\ ReturnedBy(funcs'[current_func], A.insts[1]) =
                        (IF Top.func_type = "i32" THEN "0" ELSE "none")
                  /\ A.values = (IF Top.func_type = "i32" THEN 2 ELSE 1)]_vars

\* the end of an int function whose body ended with an if: the block after
\* the if holds a Return of the constant 0 and nothing else
C26_Witness ==
    /\ obs.last = "FuncDefEnd"
    /\ funcs[current_func].ret = "i32"
    /\ \E c \in 0..(3 * MaxStmts) : funcs[current_func].bbname[current_bb] = BBName("%end", c)
    /\ Len(funcs[current_func].insts[current_bb]) = 1
    /\ ReturnedBy(funcs[current_func],
                  funcs[current_func].dfg[funcs[current_func].insts[current_bb][1]]) = "0"

(***************************************************************************)
(* Properties of the initializers generated from the flat sequence.        *)
(***************************************************************************)
\* the local array of main has just been declared with an initializer
LocalInitDone ==
    /\ flat.called /\ flat.panic = "" /\ ~flat.global
    /\ current_func # 0 /\ ~IsGlobalScope(symbol_table)
    /\ obs.last = "DeclArray" /\ obs.panic = ""

\* the instructions of the block of the declaration after the allocation:
\* those of the expressions of the initializer, lowered by flatten_init_list,
\* then those of generate_local_init, the last count of them
BlockInsts == funcs[current_func].insts[current_bb]
InitInsts(count) == SubSeq(BlockInsts, Len(BlockInsts) - count + 1, Len(BlockInsts))
InitValue(count, p) == funcs[current_func].dfg[InitInsts(count)[p]]
BlockOfKind(kind) ==
    {p \in 1..Len(BlockInsts) : funcs[current_func].dfg[BlockInsts[p]].kind = kind}

\* floor(i / (d(j+1) * ... * dk)) mod dj
RowMajorIndex(shape, i, j) ==
    (i \div ProductOf(SubSeq(shape, j + 1, Len(shape)))) % shape[j]

\* C28: for a local array of shape [d1..dk] with an initializer,
\* generate_local_init emits for every flat position i from 0 to N-1, in
\* increasing order, exactly k GetElemPtr chained from the allocation, the
\* j-th with the index floor(i / prod_{m>j} d_m) mod d_j, followed by one
\* Store of the i-th flat value: N stores and N*k GetElemPtrs in total.
C28_LocalInitRowMajor ==
    LocalInitDone =>
        LET shape == flat.shape
            k == Len(shape)
            N == ProductOf(shape)
            dfg == funcs[current_func].dfg
            alloc == BlockInsts[1]
            count == N * (k + 1)
        IN  /\ dfg[alloc].kind = "Alloc"
            /\ Len(BlockInsts) >= 1 + count
            /\ Cardinality(BlockOfKind("Store")) = N
            /\ Cardinality(BlockOfKind("GetElemPtr")) = N * k
            /\ \A i \in 0..(N - 1) :
                  /\ \A j \in 1..k :
                        LET gep == InitValue(count, i * (k + 1) + j) IN
                        /\ gep.kind = "GetElemPtr"
                        /\ gep.a = (IF j = 1 THEN alloc
                                    ELSE InitInsts(count)[i * (k + 1) + j - 1])
                        /\ dfg[gep.b].kind = "Integer"
                        /\ dfg[gep.b].n = RowMajorIndex(shape, i, j)
                  /\ LET store == InitValue(count, i * (k + 1) + k + 1) IN
                        /\ store.kind = "Store"
                        /\ store.a = flat.result[i + 1]
                        /\ store.b = InitInsts(count)[i * (k + 1) + k]

\* int a[2][2][2] = {1, 2, {3}, 4} in main: 8 stores of 1 2 3 0 4 0 0 0 and 24
\* GetElemPtr
C28_Witness ==
    /\ LocalInitDone
    /\ flat.shape = <<2, 2, 2>>
    /\ FlatNumbers = <<1, 2, 3, 0, 4, 0, 0, 0>>
    /\ Cardinality(BlockOfKind("Store")) = 8
    /\ Cardinality(BlockOfKind("GetElemPtr")) = 24

\* the global array a has been declared with an initializer
GlobalInitDone ==
    /\ flat.called /\ flat.panic = "" /\ flat.global
    /\ globals # <<>>
    /\ globals[Len(globals)].kind = "GlobalAlloc"
    /\ globals[Len(globals)].shape = flat.shape

\* the value is an Aggregate nested from level j down to level k, each
\* aggregate of a level having as many children as the dimension of the level
RECURSIVE NestedFrom(_, _, _)
NestedFrom(h, shape, j) ==
    /\ h < 0
    /\ globals[-h].kind = "Aggregate"
    /\ Len(globals[-h].elems) = shape[j]
    /\ \A c \in 1..Len(globals[-h].elems) :
          IF j < Len(shape) THEN NestedFrom(globals[-h].elems[c], shape, j + 1)
          ELSE globals[-globals[-h].elems[c]].kind # "Aggregate"

\* the leaves of a value, from left to right
RECURSIVE LeavesOf(_)
RECURSIVE LeavesOfAll(_)
LeavesOfAll(elems) ==
    IF elems = <<>> THEN <<>> ELSE LeavesOf(Head(elems)) \o LeavesOfAll(Tail(elems))
LeavesOf(h) ==
    IF h < 0 /\ globals[-h].kind = "Aggregate" THEN LeavesOfAll(globals[-h].elems)
    ELSE <<h>>

\* C29: for every shape [d1..dk] with all di >= 1 and every flat sequence
\* of N = d1 * ... * dk values, generate_global_init returns a single
\* Aggregate nested exactly k levels deep, every aggregate of level j having
\* exactly d_j children, whose leaves from left to right are the flat
\* sequence.
C29_GlobalInitNested ==
    GlobalInitDone =>
        /\ NestedFrom(globals[Len(globals)].init, flat.shape, 1)
        /\ LeavesOf(globals[Len(globals)].init) = flat.result

\* int a[2][2][2] = {1, 2, {3}, 4} in global scope: an Aggregate of 2
\* Aggregates of 2 Aggregates of 2 leaves, 1 2 3 0 4 0 0 0
C29_Witness ==
    /\ GlobalInitDone
    /\ flat.shape = <<2, 2, 2>>
    /\ FlatNumbers = <<1, 2, 3, 0, 4, 0, 0, 0>>
    /\ Len(LeavesOf(globals[Len(globals)].init)) = 8

====
